---- MODULE Spec2Model ----
(***************************************************************************)
(* State-machine model of the GC9A01 display driver (src/GC9A01.py): the   *)
(* software framebuffer, the drawing operations that mutate it, the        *)
(* framebuffer-to-panel synchronisation and the bus traffic it produces,   *)
(* together with a model of the panel's graphics RAM as driven by that     *)
(* traffic.                                                                *)
(***************************************************************************)
EXTENDS Integers, Sequences, FiniteSets, TLC

VARIABLES
    width,        \* self.width
    height,       \* self.height
    cfg,          \* what the constructor was given: pins, bus, Pillow present
    framebuffer,  \* self.framebuffer: RGB888 pixel grid, or None
    gram,         \* panel graphics RAM: last RGB565 value written per pixel
    window,       \* panel addressing window <<xs, xe, ys, ye>>
    io,           \* pin and bus events of the last call, in order
    hist,         \* the calls made so far, each with the regions it synced
    ret           \* value returned by the last pure helper call

vars == <<width, height, cfg, framebuffer, gram, window, io, hist, ret>>

-----------------------------------------------------------------------------
(* Bounds of the model *)

Width == 3
Height == 2
MaxOps == 2

-----------------------------------------------------------------------------
(* Program constants *)

DefaultWidth == 240
DefaultHeight == 240
SPI_CHUNK_SIZE_BYTES == 4096
CMD_CASET == 42
CMD_RASET == 43
CMD_RAMWR == 44
CMD_SLPIN == 16
CMD_SLPOUT == 17
CMD_DISPOFF == 40
CMD_DISPON == 41

\* the constructor's default for the orientation register
madctl_val == 8

\* Python's None, for an RGB565 colour argument and for an RGB888 tuple
None565 == -1
NoneRGB == <<>>

-----------------------------------------------------------------------------
(* Integer helpers: Python's shifts and masks on non-negative ints, min, max *)

Min(a, b) == IF a <= b THEN a ELSE b
Max(a, b) == IF a >= b THEN a ELSE b

\* a & mask for a mask of the bits lo .. hi-1, and a | b for a and b that share
\* no set bit
MaskBits(a, lo, hi) == (a % (2 ^ hi)) - (a % (2 ^ lo))
OrDisjoint(a, b) == a + b

Shr(a, n) == a \div (2 ^ n)
Shl(a, n) == a * (2 ^ n)

\* Python slice s[a:b] of a sequence (0-based, end exclusive, silently truncated)
Slice(s, a, b) ==
    LET lo == Max(0, a)
        hi == Min(Len(s), b)
    IN IF hi <= lo THEN <<>> ELSE SubSeq(s, lo + 1, hi)

\* Python slice assignment s[a:b] = src on a bytearray
SliceAssign(s, a, b, src) ==
    Slice(s, 0, Min(a, Len(s))) \o src \o Slice(s, Max(Min(a, Len(s)), b), Len(s))

-----------------------------------------------------------------------------
(* Colour conversion *)

\* the bit-shift expansion, which leaves the low bits of every channel clear
rgb565_to_rgb888_tuple_shift(color_rgb565) ==
    LET r5 == Shr(MaskBits(color_rgb565, 11, 16), 11)
        g6 == Shr(MaskBits(color_rgb565, 5, 11), 5)
        b5 == MaskBits(color_rgb565, 0, 5)
    IN <<Shl(r5, 3), Shl(g6, 2), Shl(b5, 3)>>

rgb565_to_rgb888_tuple(color_rgb565) ==
    LET r5 == Shr(MaskBits(color_rgb565, 11, 16), 11)
        g6 == Shr(MaskBits(color_rgb565, 5, 11), 5)
        b5 == MaskBits(color_rgb565, 0, 5)
    IN <<(r5 * 255 + 15) \div 31, (g6 * 255 + 31) \div 63, (b5 * 255 + 15) \div 31>>

\* green shifted as if it were a five-bit field
rgb888_tuple_to_rgb565_int_green(rgb_tuple) ==
    IF rgb_tuple = NoneRGB THEN None565
    ELSE OrDisjoint(OrDisjoint(Shl(MaskBits(rgb_tuple[1], 3, 8), 8),
                               Shl(MaskBits(rgb_tuple[2], 3, 8), 3)),
                    Shr(rgb_tuple[3], 3))

rgb888_tuple_to_rgb565_int(rgb_tuple) ==
    IF rgb_tuple = NoneRGB THEN None565
    ELSE OrDisjoint(OrDisjoint(Shl(MaskBits(rgb_tuple[1], 3, 8), 8),
                               Shl(MaskBits(rgb_tuple[2], 2, 8), 3)),
                    Shr(rgb_tuple[3], 3))

-----------------------------------------------------------------------------
(* Images.  An image is a record [w, h, px] with px a function from        *)
(* <<column, row>> to a pixel: an <<r, g, b>> triple for mode RGB, an      *)
(* <<r, g, b, a>> tuple for mode RGBA.  These operators model the Pillow   *)
(* calls the driver makes.                                                 *)

Coords(w, h) == (0 .. w - 1) \X (0 .. h - 1)

\* Image.new(mode, (w, h), colour)
ImageNew(w, h, colour) == [w |-> w, h |-> h, px |-> [p \in Coords(w, h) |-> colour]]

InImage(img, p) == p[1] >= 0 /\ p[1] < img.w /\ p[2] >= 0 /\ p[2] < img.h

\* the drawing primitives write the ink on the pixels of a shape, clipped
Paint(img, shape, ink) ==
    [img EXCEPT !.px = [p \in Coords(img.w, img.h) |->
                            IF p \in shape THEN ink ELSE img.px[p]]]

Box(x0, y0, x1, y1) == (x0 .. x1) \X (y0 .. y1)

\* ImageDraw.point
DrawPoint(img, x, y, ink) == Paint(img, {<<x, y>>}, ink)

\* the ring of the given width just inside a box
BoxRing(x0, y0, x1, y1, wd) ==
    {p \in Box(x0, y0, x1, y1) :
        p[1] < x0 + wd \/ p[1] > x1 - wd \/ p[2] < y0 + wd \/ p[2] > y1 - wd}

\* ImageDraw.rectangle([(x0,y0),(x1,y1)], fill, outline, width)
DrawRectangle(img, x0, y0, x1, y1, fill, outline, wd) ==
    LET filled == IF fill # NoneRGB THEN Paint(img, Box(x0, y0, x1, y1), fill) ELSE img
    IN IF outline # NoneRGB /\ outline # fill /\ wd # 0
       THEN Paint(filled, BoxRing(x0, y0, x1, y1, wd), outline)
       ELSE filled

\* pixels whose centre lies in the ellipse inscribed in a box
EllipseDisc(x0, y0, x1, y1) ==
    LET w == x1 - x0 + 1
        h == y1 - y0 + 1
    IN {p \in Box(x0, y0, x1, y1) :
            (2 * p[1] - x0 - x1) * (2 * p[1] - x0 - x1) * h * h
          + (2 * p[2] - y0 - y1) * (2 * p[2] - y0 - y1) * w * w
          <= w * w * h * h}

EllipseRing(x0, y0, x1, y1, wd) ==
    EllipseDisc(x0, y0, x1, y1) \ EllipseDisc(x0 + wd, y0 + wd, x1 - wd, y1 - wd)

\* ImageDraw.ellipse([(x0,y0),(x1,y1)], fill, outline, width)
DrawEllipse(img, x0, y0, x1, y1, fill, outline, wd) ==
    LET filled == IF fill # NoneRGB THEN Paint(img, EllipseDisc(x0, y0, x1, y1), fill) ELSE img
    IN IF outline # NoneRGB /\ outline # fill /\ wd # 0
       THEN Paint(filled, EllipseRing(x0, y0, x1, y1, wd), outline)
       ELSE filled

Abs(a) == IF a < 0 THEN -a ELSE a
Sign(a) == IF a < 0 THEN -1 ELSE 1

\* the pixels of a thin line: the rasteriser's Bresenham walk from (x0,y0),
\* n steps along the major axis, followed by the end point
RECURSIVE Bresenham(_, _, _, _, _, _, _, _, _)
Bresenham(x, y, xs, ys, dx2, dy2, e, n, steep) ==
    IF n = 0 THEN {}
    ELSE LET bump == e >= 0
             e1 == (IF bump THEN e - (IF steep THEN dy2 ELSE dx2) ELSE e)
                   + (IF steep THEN dx2 ELSE dy2)
         IN {<<x, y>>} \cup
            (IF steep
             THEN Bresenham(IF bump THEN x + xs ELSE x, y + ys, xs, ys, dx2, dy2, e1, n - 1, steep)
             ELSE Bresenham(x + xs, IF bump THEN y + ys ELSE y, xs, ys, dx2, dy2, e1, n - 1, steep))

ThinLine(x0, y0, x1, y1) ==
    LET dx == Abs(x1 - x0)
        dy == Abs(y1 - y0)
        xs == Sign(x1 - x0)
        ys == Sign(y1 - y0)
    IN {<<x1, y1>>} \cup
       (IF dx = 0 THEN {<<x0, y>> : y \in Min(y0, y1) .. Max(y0, y1)}
        ELSE IF dy = 0 THEN {<<x, y0>> : x \in Min(x0, x1) .. Max(x0, x1)}
        ELSE IF dx > dy
             THEN Bresenham(x0, y0, xs, ys, 2 * dx, 2 * dy, 2 * dy - dx, dx, FALSE)
             ELSE Bresenham(x0, y0, xs, ys, 2 * dx, 2 * dy, 2 * dx - dy, dy, TRUE))

\* a line of width wd > 1 is the polygon whose corners lie (wd-1)/2 to either
\* side of the end points: ceil((wd-1)/2) one way, floor((wd-1)/2) the other
WideLine(x0, y0, x1, y1, wd) ==
    LET up == wd \div 2
        dn == (wd - 1) \div 2
    IN IF x0 = x1 /\ y0 = y1 THEN {<<x0, y0>>}
       ELSE IF y0 = y1 THEN Box(Min(x0, x1), y0 - up, Max(x0, x1), y0 + dn)
       ELSE IF x0 = x1 THEN Box(x0 - up, Min(y0, y1), x0 + dn, Max(y0, y1))
       ELSE UNION {Box(p[1] - up, p[2] - up, p[1] + dn, p[2] + dn) :
                        p \in ThinLine(x0, y0, x1, y1)}

\* ImageDraw.line([(x0,y0),(x1,y1)], fill, width)
DrawLine(img, x0, y0, x1, y1, ink, wd) ==
    Paint(img, IF wd <= 1 THEN ThinLine(x0, y0, x1, y1)
               ELSE WideLine(x0, y0, x1, y1, wd), ink)

\* Image.crop((x0, y0, x1, y1)); pixels outside the source read as zero
Crop(img, x0, y0, x1, y1, zero) ==
    [w |-> x1 - x0, h |-> y1 - y0,
     px |-> [p \in Coords(x1 - x0, y1 - y0) |->
                IF InImage(img, <<x0 + p[1], y0 + p[2]>>)
                THEN img.px[<<x0 + p[1], y0 + p[2]>>] ELSE zero]]

\* Image.paste(src, (x, y)): overwrite, clipped to the destination
Paste(dst, src, x, y) ==
    [dst EXCEPT !.px = [p \in Coords(dst.w, dst.h) |->
                            IF InImage(src, <<p[1] - x, p[2] - y>>)
                            THEN src.px[<<p[1] - x, p[2] - y>>] ELSE dst.px[p]]]

\* Image.convert("RGBA") of an RGB image, Image.convert("RGB") of an RGBA one
ConvertRGBA(img) ==
    [img EXCEPT !.px = [p \in Coords(img.w, img.h) |-> img.px[p] \o <<255>>]]
ConvertRGB(img) ==
    [img EXCEPT !.px = [p \in Coords(img.w, img.h) |-> SubSeq(img.px[p], 1, 3)]]

ShiftForDiv255(a) == Shr(Shr(a, 8) + a, 8)

IsRGBA(img) == img.w > 0 /\ img.h > 0 /\ Len(img.px[<<0, 0>>]) = 4

\* background.paste(img, mask=alpha) on a black background of the same size
FlattenOnBlack(img) ==
    [img EXCEPT !.px = [p \in Coords(img.w, img.h) |->
        <<ShiftForDiv255(img.px[p][1] * img.px[p][4] + 128),
          ShiftForDiv255(img.px[p][2] * img.px[p][4] + 128),
          ShiftForDiv255(img.px[p][3] * img.px[p][4] + 128)>>]]

\* one pixel of Image.alpha_composite, in the library's fixed-point arithmetic
BlendPixel(dst, src) ==
    IF src[4] = 0 THEN dst
    ELSE LET blend == dst[4] * (255 - src[4])
             outa255 == src[4] * 255 + blend
             coef1 == (src[4] * 255 * 255 * 128) \div outa255
             coef2 == 255 * 128 - coef1
             ch(i) == Shr(ShiftForDiv255(src[i] * coef1 + dst[i] * coef2 + Shl(128, 7)), 7)
         IN <<ch(1), ch(2), ch(3), ShiftForDiv255(outa255 + 128)>>

\* Image.alpha_composite(bg, fg) of two RGBA images of the same size
AlphaComposite(bg, fg) ==
    [bg EXCEPT !.px = [p \in Coords(bg.w, bg.h) |-> BlendPixel(bg.px[p], fg.px[p])]]

-----------------------------------------------------------------------------
(* Pin and bus events.  Every call the driver makes on a collaborator is   *)
(* one event: a level set on a pin, or one spi.write with its bytes.       *)

PinEv(pin, level) == [t |-> pin, v |-> level, data |-> <<>>]
SpiEv(bytes) == [t |-> "spi", v |-> 0, data |-> bytes]

\* time.sleep, in milliseconds
SleepEv(ms) == [t |-> "sleep", v |-> ms, data |-> <<>>]

\* an spi.write that raised, and the exception leaving the call
SpiFailEv(bytes) == [t |-> "spi_failed", v |-> 0, data |-> bytes]
RaiseEv == [t |-> "raise", v |-> 0, data |-> <<>>]

Raised(events) == events # <<>> /\ events[Len(events)].t = "raise"

\* a failed write tried again, and the rest of the transfer carried on
RunStep_retrying(c, e, n) ==
    IF e.t = "dc" /\ ~c.dc THEN [ev |-> <<RaiseEv>>, n |-> n, stopped |-> TRUE]
    ELSE IF e.t = "spi" /\ ~c.spi THEN [ev |-> <<RaiseEv>>, n |-> n, stopped |-> TRUE]
    ELSE IF e.t = "spi" /\ n + 1 = c.fail
         THEN [ev |-> <<SpiFailEv(e.data), e>>, n |-> n + 1, stopped |-> FALSE]
    ELSE [ev |-> <<e>>, n |-> IF e.t = "spi" THEN n + 1 ELSE n, stopped |-> FALSE]

\* one statement that acts on a collaborator, as the n-th bus write so far
\* comes up: what it leaves in the log, and whether the call goes on
RunStep(c, e, n) ==
    IF e.t = "dc" /\ ~c.dc THEN [ev |-> <<RaiseEv>>, n |-> n, stopped |-> TRUE]
    ELSE IF e.t = "spi" /\ ~c.spi THEN [ev |-> <<RaiseEv>>, n |-> n, stopped |-> TRUE]
    ELSE IF e.t = "spi" /\ n + 1 = c.fail
         THEN [ev |-> <<SpiFailEv(e.data), RaiseEv>>, n |-> n + 1, stopped |-> TRUE]
    ELSE [ev |-> <<e>>, n |-> IF e.t = "spi" THEN n + 1 ELSE n, stopped |-> FALSE]

\* the statements of a call run in order until one raises: a method called on
\* a data/command pin or a bus that is None raises before anything happens, and
\* the bus raises on the write whose number in the call is c.fail; a long log
\* is run half by half
RECURSIVE Run(_, _, _)
Run(c, events, n) ==
    IF events = <<>> THEN [ev |-> <<>>, n |-> n, stopped |-> FALSE]
    ELSE IF Len(events) = 1 THEN RunStep(c, events[1], n)
    ELSE LET a == Run(c, SubSeq(events, 1, Len(events) \div 2), n)
         IN IF a.stopped THEN a
            ELSE LET b == Run(c, SubSeq(events, Len(events) \div 2 + 1, Len(events)), a.n)
                 IN [ev |-> a.ev \o b.ev, n |-> b.n, stopped |-> b.stopped]

\* the events a call gets through, given the events it would make if every
\* statement succeeded; a raise marker ends the log when a statement raised
Attempt(c, events) ==
    IF c.dc /\ c.spi /\ c.fail = 0 THEN events ELSE Run(c, events, 0).ev

\* except Exception: the exception stops there and the method returns
Caught(events) ==
    IF Raised(events) THEN SubSeq(events, 1, Len(events) - 1) ELSE events

cs_low(c) == IF c.cs THEN <<PinEv("cs", 0)>> ELSE <<>>
cs_high(c) == IF c.cs THEN <<PinEv("cs", 1)>> ELSE <<>>

\* Python's None for the optional payload of a command
NoneBytes == <<None565>>

write_cmd_bytes_data(c, cmd, data_bytes) ==
    cs_low(c) \o <<PinEv("dc", 0), SpiEv(<<cmd>>)>>
    \o (IF data_bytes # NoneBytes THEN <<PinEv("dc", 1), SpiEv(data_bytes)>> ELSE <<>>)
    \o cs_high(c)

write_cmd_no_args(c, cmd) ==
    cs_low(c) \o <<PinEv("dc", 0), SpiEv(<<cmd>>)>> \o cs_high(c)

write_cmd_single_arg(c, cmd, arg) ==
    cs_low(c) \o <<PinEv("dc", 0), SpiEv(<<cmd>>), PinEv("dc", 1), SpiEv(<<arg>>)>>
    \o cs_high(c)

\* every chunk one byte short of the step
Chunks_short(data) ==
    [k \in 1 .. (Len(data) + SPI_CHUNK_SIZE_BYTES - 1) \div SPI_CHUNK_SIZE_BYTES |->
        Slice(data, (k - 1) * SPI_CHUNK_SIZE_BYTES, k * SPI_CHUNK_SIZE_BYTES - 1)]

\* the chunks range(0, len, SPI_CHUNK_SIZE_BYTES) cuts a buffer into
Chunks(data) ==
    [k \in 1 .. (Len(data) + SPI_CHUNK_SIZE_BYTES - 1) \div SPI_CHUNK_SIZE_BYTES |->
        Slice(data, (k - 1) * SPI_CHUNK_SIZE_BYTES, k * SPI_CHUNK_SIZE_BYTES)]

\* pixel data written with the data/command line low
write_data_dc_low(c, data_input) ==
    LET chunks == Chunks(data_input)
    IN cs_low(c) \o <<PinEv("dc", 0)>>
       \o [k \in DOMAIN chunks |-> SpiEv(chunks[k])]
       \o cs_high(c)

\* _write_data on a bytes or bytearray argument
write_data(c, data_input) ==
    LET chunks == Chunks(data_input)
    IN cs_low(c) \o <<PinEv("dc", 1)>>
       \o [k \in DOMAIN chunks |-> SpiEv(chunks[k])]
       \o cs_high(c)

\* _write_data on a list: one write of the whole list; on anything else: an
\* error message and no write
write_data_list(c, data_input) ==
    cs_low(c) \o <<PinEv("dc", 1), SpiEv(data_input)>> \o cs_high(c)
write_data_other(c) == cs_low(c) \o <<PinEv("dc", 1)>> \o cs_high(c)

Clamp(v, lo, hi) == Max(lo, Min(v, hi))

\* the four payload bytes of an addressing command: start, end, high byte first
WindowBytes(start, end) ==
    <<MaskBits(Shr(start, 8), 0, 8), MaskBits(start, 0, 8),
      MaskBits(Shr(end, 8), 0, 8), MaskBits(end, 0, 8)>>

\* clamped, but an inverted pair left as given
WindowBounds_unordered(w, h, x_start, y_start, x_end, y_end) ==
    <<Clamp(x_start, 0, w - 1), Clamp(x_end, 0, w - 1),
      Clamp(y_start, 0, h - 1), Clamp(y_end, 0, h - 1)>>

\* the column and row bounds set_window emits: clamped, then put in order
WindowBounds(w, h, x_start, y_start, x_end, y_end) ==
    LET xs == Clamp(x_start, 0, w - 1)
        ys == Clamp(y_start, 0, h - 1)
        xe == Clamp(x_end, 0, w - 1)
        ye == Clamp(y_end, 0, h - 1)
    IN <<Min(xs, xe), Max(xs, xe), Min(ys, ye), Max(ys, ye)>>

set_window(c, w, h, x_start, y_start, x_end, y_end) ==
    LET b == WindowBounds(w, h, x_start, y_start, x_end, y_end)
    IN write_cmd_bytes_data(c, CMD_CASET, WindowBytes(b[1], b[2]))
       \o write_cmd_bytes_data(c, CMD_RASET, WindowBytes(b[3], b[4]))

write_ram_prepare(c) == write_cmd_no_args(c, CMD_RAMWR)

\* an image as packed RGB565, two bytes per pixel high byte first, row-major;
\* an RGBA image is first flattened onto black
pil_image_to_rgb565_bytearray(pil_image) ==
    LET img_rgb == IF IsRGBA(pil_image) THEN FlattenOnBlack(pil_image) ELSE pil_image
    IN [k \in 1 .. 2 * img_rgb.w * img_rgb.h |->
          LET i == (k - 1) \div 2
              v == rgb888_tuple_to_rgb565_int(img_rgb.px[<<i % img_rgb.w, i \div img_rgb.w>>])
          IN IF k % 2 = 1 THEN MaskBits(Shr(v, 8), 0, 8) ELSE MaskBits(v, 0, 8)]

\* the rows read from the first column of the source whatever was clipped
RECURSIVE ClipRows_unshifted(_, _, _, _, _, _, _, _)
ClipRows_unshifted(clipped, buf, row_idx, blit_width, blit_height, width_, sx, sy) ==
    IF row_idx >= blit_height THEN clipped
    ELSE LET s_start == ((sy + row_idx) * width_) * 2
             dest_idx == row_idx * blit_width * 2
         IN ClipRows_unshifted(SliceAssign(clipped, dest_idx, dest_idx + blit_width * 2,
                                           Slice(buf, s_start, s_start + blit_width * 2)),
                               buf, row_idx + 1, blit_width, blit_height, width_, sx, sy)

\* the rows of the source buffer that fall in the clipped window
RECURSIVE ClipRows(_, _, _, _, _, _, _, _)
ClipRows(clipped, buf, row_idx, blit_width, blit_height, width_, sx, sy) ==
    IF row_idx >= blit_height THEN clipped
    ELSE LET s_start == ((sy + row_idx) * width_ + sx) * 2
             dest_idx == row_idx * blit_width * 2
         IN ClipRows(SliceAssign(clipped, dest_idx, dest_idx + blit_width * 2,
                                 Slice(buf, s_start, s_start + blit_width * 2)),
                     buf, row_idx + 1, blit_width, blit_height, width_, sx, sy)

\* the events of draw_image_rgb565(x, y, width, height, image_buffer_bytes)
draw_image_rgb565(c, w, h, x, y, width_, height_, buf) ==
    IF x >= w \/ y >= h \/ x + width_ <= 0 \/ y + height_ <= 0 THEN <<>>
    ELSE LET src_x_offset == IF x < 0 THEN -x ELSE 0
             src_y_offset == IF y < 0 THEN -y ELSE 0
             draw_x == Max(0, x)
             draw_y == Max(0, y)
             blit_width == Min(width_ - src_x_offset, w - draw_x)
             blit_height == Min(height_ - src_y_offset, h - draw_y)
         IN IF blit_width <= 0 \/ blit_height <= 0 THEN <<>>
            ELSE set_window(c, w, h, draw_x, draw_y,
                            draw_x + blit_width - 1, draw_y + blit_height - 1)
                 \o write_ram_prepare(c)
                 \o (IF blit_width # width_ \/ blit_height # height_
                        \/ src_x_offset > 0 \/ src_y_offset > 0
                     THEN write_data(c, ClipRows([k \in 1 .. blit_width * blit_height * 2 |-> 0],
                                                 buf, 0, blit_width, blit_height, width_,
                                                 src_x_offset, src_y_offset))
                     ELSE write_data(c, buf))

NoImage == ImageNew(0, 0, NoneRGB)
FramebufferAbsent(c, fb) == ~c.has_pil \/ fb = NoImage

\* the extent cut one short of the panel's far edge
ClampRegion_short(w, h, x, y, width_, height_) ==
    LET x1 == Max(0, Min(x, w - 1))
        y1 == Max(0, Min(y, h - 1))
    IN <<x1, y1, Max(0, Min(width_, w - 1 - x1)), Max(0, Min(height_, h - 1 - y1))>>

\* the region _update_framebuffer_region pushes for a request, <<x, y, w, h>>
ClampRegion(w, h, x, y, width_, height_) ==
    LET x1 == Max(0, Min(x, w - 1))
        y1 == Max(0, Min(y, h - 1))
    IN <<x1, y1, Max(0, Min(width_, w - x1)), Max(0, Min(height_, h - y1))>>

\* the events of _update_framebuffer_region(x, y, width, height)
update_framebuffer_region(c, fb, w, h, x, y, width_, height_) ==
    IF FramebufferAbsent(c, fb) THEN <<>>
    ELSE LET r == ClampRegion(w, h, x, y, width_, height_)
         IN IF r[3] = 0 \/ r[4] = 0 THEN <<>>
            ELSE LET region_img == Crop(fb, r[1], r[2], r[1] + r[3], r[2] + r[4], <<0, 0, 0>>)
                 IN Caught(Attempt(c, draw_image_rgb565(c, w, h, r[1], r[2], r[3], r[4],
                                                        pil_image_to_rgb565_bytearray(region_img))))

-----------------------------------------------------------------------------
(* The panel.  It sees the bytes written on the bus, each with the level   *)
(* of the data/command line at the time, and keeps an addressing window    *)
(* and its graphics RAM.                                                   *)

\* the spi writes of an event log, each with the data/command level it saw,
\* and the level the log leaves; a long log is scanned half by half
RECURSIVE BusScan(_, _)
BusScan(events, dc) ==
    IF events = <<>> THEN [w |-> <<>>, dc |-> dc]
    ELSE IF Len(events) = 1
    THEN LET e == events[1]
         IN IF e.t = "dc" THEN [w |-> <<>>, dc |-> e.v]
            ELSE IF e.t = "spi" THEN [w |-> <<[dc |-> dc, data |-> e.data]>>, dc |-> dc]
            ELSE [w |-> <<>>, dc |-> dc]
    ELSE LET mid == Len(events) \div 2
             a == BusScan(SubSeq(events, 1, mid), dc)
             b == BusScan(SubSeq(events, mid + 1, Len(events)), a.dc)
         IN [w |-> a.w \o b.w, dc |-> b.dc]

BusWrites(events, dc) == BusScan(events, dc).w

\* graphics RAM after a memory write of the pixel bytes into a window: the
\* k-th pixel lands at column xs + k mod width, row ys + k div width, and the
\* write pointer wraps to the window's start when it passes its end
WritePixels(mem, win, bytes) ==
    LET ww == win[2] - win[1] + 1
        wh == win[4] - win[3] + 1
        n == Len(bytes) \div 2
        cell(p) == (p[2] - win[3]) * ww + (p[1] - win[1])
        written == {p \in (win[1] .. win[2]) \X (win[3] .. win[4]) : cell(p) < n}
        last(p) == cell(p) + ((n - 1 - cell(p)) \div (ww * wh)) * (ww * wh)
    IN [p \in (DOMAIN mem) \cup written |->
            IF p \in written
            THEN bytes[2 * last(p) + 1] * 256 + bytes[2 * last(p) + 2]
            ELSE mem[p]]

\* the panel's state after the bus writes, from state [mem, win, cmd, args]
RECURSIVE PanelApply(_, _)
PanelApply(st, writes) ==
    IF writes = <<>> THEN st
    ELSE IF Len(writes) > 1
    THEN LET half == PanelApply(st, SubSeq(writes, 1, Len(writes) \div 2))
         IN IF half.cmd >= 0
            THEN PanelApply(half, SubSeq(writes, Len(writes) \div 2 + 1, Len(writes)))
            ELSE half
    ELSE LET wr == Head(writes)
             args == st.args \o wr.data
             next ==
                IF wr.dc = 0 THEN [st EXCEPT !.cmd = wr.data[1], !.args = <<>>]
                ELSE IF st.cmd = CMD_CASET /\ Len(args) >= 4
                THEN [st EXCEPT !.args = args,
                                !.win = <<args[1] * 256 + args[2], args[3] * 256 + args[4],
                                          st.win[3], st.win[4]>>]
                ELSE IF st.cmd = CMD_RASET /\ Len(args) >= 4
                THEN [st EXCEPT !.args = args,
                                !.win = <<st.win[1], st.win[2],
                                          args[1] * 256 + args[2], args[3] * 256 + args[4]>>]
                ELSE IF st.cmd = CMD_RAMWR
                THEN [st EXCEPT !.args = args, !.mem = WritePixels(st.mem, st.win, args)]
                ELSE [st EXCEPT !.args = args]
         IN next

Panel(mem, win, events) ==
    PanelApply([mem |-> mem, win |-> win, cmd |-> 0, args |-> <<>>], BusWrites(events, 0))

\* the regions an event log programs and then writes: one <<x, y, w, h>> for
\* each column-address, row-address, memory-write command triple
SyncRegions(events) ==
    LET wr == BusWrites(events, 0)
        at == {k \in 1 .. Len(wr) - 4 :
                  /\ wr[k].dc = 0 /\ wr[k].data = <<CMD_CASET>>
                  /\ wr[k + 2].dc = 0 /\ wr[k + 2].data = <<CMD_RASET>>
                  /\ wr[k + 4].dc = 0 /\ wr[k + 4].data = <<CMD_RAMWR>>}
        region(k) ==
            LET cb == wr[k + 1].data
                rb == wr[k + 3].data
                xs == cb[1] * 256 + cb[2]
                xe == cb[3] * 256 + cb[4]
                ys == rb[1] * 256 + rb[2]
                ye == rb[3] * 256 + rb[4]
            IN <<xs, ys, xe - xs + 1, ye - ys + 1>>
        found == SelectSeq([k \in 1 .. Len(wr) |-> IF k \in at THEN region(k) ELSE <<>>],
                           LAMBDA r : r # <<>>)
    IN found

-----------------------------------------------------------------------------
(* The drawing operations.  Each gives the effect of one call as a record: *)
(* fb, the framebuffer afterwards; ev, the pin and bus events in order;    *)
(* raised, whether the call ended in an exception.                         *)

Effect(fb, ev) == [fb |-> fb, ev |-> ev, raised |-> FALSE]
Raise(fb, ev) == [fb |-> fb, ev |-> ev, raised |-> TRUE]

\* the effect of a call that lets an exception of its bus traffic through
Outcome(c, fb, events) ==
    LET ev == Attempt(c, events)
    IN [fb |-> fb, ev |-> ev, raised |-> Raised(ev)]

ToRGB(color_rgb565) ==
    IF color_rgb565 # None565 THEN rgb565_to_rgb888_tuple(color_rgb565) ELSE NoneRGB

\* a pixel off the panel moved to the nearest one on it
pixel_clamped(c, fb, w, h, x, y, color_rgb565) ==
    IF FramebufferAbsent(c, fb) THEN Effect(fb, <<>>)
    ELSE IF color_rgb565 = None565 THEN Raise(fb, <<>>)
    ELSE LET cx == Max(0, Min(x, w - 1))
             cy == Max(0, Min(y, h - 1))
             fb2 == DrawPoint(fb, cx, cy, rgb565_to_rgb888_tuple(color_rgb565))
         IN Effect(fb2, update_framebuffer_region(c, fb2, w, h, cx, cy, 1, 1))

pixel(c, fb, w, h, x, y, color_rgb565) ==
    IF FramebufferAbsent(c, fb) THEN Effect(fb, <<>>)
    ELSE IF ~(0 <= x /\ x < w /\ 0 <= y /\ y < h) THEN Effect(fb, <<>>)
    ELSE IF color_rgb565 = None565 THEN Raise(fb, <<>>)
    ELSE LET fb2 == DrawPoint(fb, x, y, rgb565_to_rgb888_tuple(color_rgb565))
         IN Effect(fb2, update_framebuffer_region(c, fb2, w, h, x, y, 1, 1))

line(c, fb, w, h, x0, y0, x1, y1, color_rgb565, line_width) ==
    IF FramebufferAbsent(c, fb) THEN Effect(fb, <<>>)
    ELSE LET fb2 == DrawLine(fb, x0, y0, x1, y1, rgb565_to_rgb888_tuple(color_rgb565), line_width)
             padding == (line_width \div 2) + 1
             min_x == Min(x0, x1) - padding
             max_x == Max(x0, x1) + padding
             min_y == Min(y0, y1) - padding
             max_y == Max(y0, y1) + padding
         IN Effect(fb2, update_framebuffer_region(c, fb2, w, h, min_x, min_y,
                                                  max_x - min_x + 1, max_y - min_y + 1))

rectangle(c, fb, w, h, x, y, width_, height_, outline_rgb565, fill_rgb565, outline_width) ==
    IF FramebufferAbsent(c, fb) THEN Effect(fb, <<>>)
    ELSE IF width_ <= 0 \/ height_ <= 0 THEN Effect(fb, <<>>)
    ELSE LET pil_fill == ToRGB(fill_rgb565)
             pil_outline == ToRGB(outline_rgb565)
             stroked == pil_outline # NoneRGB /\ outline_width > 0
             fb2 == DrawRectangle(fb, x, y, x + width_ - 1, y + height_ - 1, pil_fill,
                                  pil_outline, IF stroked THEN outline_width ELSE 0)
             padding == IF stroked THEN (outline_width \div 2) + 1 ELSE 0
         IN Effect(fb2, update_framebuffer_region(c, fb2, w, h, x - padding, y - padding,
                                                  width_ + 2 * padding, height_ + 2 * padding))

\* the colour passed as the outline too
fill_rect_outlined(c, fb, w, h, x, y, width_, height_, color_rgb565) ==
    rectangle(c, fb, w, h, x, y, width_, height_, color_rgb565, color_rgb565, 1)

fill_rect(c, fb, w, h, x, y, width_, height_, color_rgb565) ==
    rectangle(c, fb, w, h, x, y, width_, height_, None565, color_rgb565, 1)

\* the rectangle's far corner taken as exclusive
fill_screen_exclusive(c, fb, w, h, color_rgb565) ==
    IF FramebufferAbsent(c, fb) THEN Effect(fb, <<>>)
    ELSE LET fb2 == DrawRectangle(fb, 0, 0, w - 2, h - 2,
                                  rgb565_to_rgb888_tuple(color_rgb565), NoneRGB, 1)
         IN Effect(fb2, update_framebuffer_region(c, fb2, w, h, 0, 0, w, h))

fill_screen(c, fb, w, h, color_rgb565) ==
    IF FramebufferAbsent(c, fb) THEN Effect(fb, <<>>)
    ELSE LET fb2 == DrawRectangle(fb, 0, 0, w - 1, h - 1,
                                  rgb565_to_rgb888_tuple(color_rgb565), NoneRGB, 1)
         IN Effect(fb2, update_framebuffer_region(c, fb2, w, h, 0, 0, w, h))

\* the outline colour taken first for the single pixel of radius 0
circle_outline_first(c, fb, w, h, x_c, y_c, r, outline_rgb565, fill_rgb565, outline_width) ==
    IF FramebufferAbsent(c, fb) THEN Effect(fb, <<>>)
    ELSE IF r < 0 THEN Effect(fb, <<>>)
    ELSE IF r = 0
    THEN pixel(c, fb, w, h, x_c, y_c,
               IF outline_rgb565 # None565 THEN outline_rgb565 ELSE fill_rgb565)
    ELSE LET pil_fill == ToRGB(fill_rgb565)
             pil_outline == ToRGB(outline_rgb565)
             stroked == pil_outline # NoneRGB /\ outline_width > 0
             fb2 == DrawEllipse(fb, x_c - r, y_c - r, x_c + r, y_c + r, pil_fill,
                                pil_outline, IF stroked THEN outline_width ELSE 0)
             padding == IF stroked THEN (outline_width \div 2) + 1 ELSE 1
         IN Effect(fb2, update_framebuffer_region(c, fb2, w, h,
                                                  x_c - r - padding, y_c - r - padding,
                                                  2 * (r + padding), 2 * (r + padding)))

circle(c, fb, w, h, x_c, y_c, r, outline_rgb565, fill_rgb565, outline_width) ==
    IF FramebufferAbsent(c, fb) THEN Effect(fb, <<>>)
    ELSE IF r < 0 THEN Effect(fb, <<>>)
    ELSE IF r = 0
    THEN pixel(c, fb, w, h, x_c, y_c,
               IF fill_rgb565 # None565 THEN fill_rgb565 ELSE outline_rgb565)
    ELSE LET pil_fill == ToRGB(fill_rgb565)
             pil_outline == ToRGB(outline_rgb565)
             stroked == pil_outline # NoneRGB /\ outline_width > 0
             fb2 == DrawEllipse(fb, x_c - r, y_c - r, x_c + r, y_c + r, pil_fill,
                                pil_outline, IF stroked THEN outline_width ELSE 0)
             padding == IF stroked THEN (outline_width \div 2) + 1 ELSE 1
         IN Effect(fb2, update_framebuffer_region(c, fb2, w, h,
                                                  x_c - r - padding, y_c - r - padding,
                                                  2 * (r + padding), 2 * (r + padding)))

oval(c, fb, w, h, bx0, by0, bx1, by1, outline_rgb565, fill_rgb565, outline_width) ==
    IF FramebufferAbsent(c, fb) THEN Effect(fb, <<>>)
    ELSE LET x0 == Min(bx0, bx1)
             x1 == Max(bx0, bx1)
             y0 == Min(by0, by1)
             y1 == Max(by0, by1)
             pil_fill == ToRGB(fill_rgb565)
             pil_outline == ToRGB(outline_rgb565)
             stroked == pil_outline # NoneRGB /\ outline_width > 0
             fb2 == DrawEllipse(fb, x0, y0, x1, y1, pil_fill, pil_outline,
                                IF stroked THEN outline_width ELSE 0)
             padding == IF stroked THEN (outline_width \div 2) + 1 ELSE 1
         IN Effect(fb2, update_framebuffer_region(c, fb2, w, h, x0 - padding, y0 - padding,
                                                  (x1 - x0 + 1) + 2 * padding,
                                                  (y1 - y0 + 1) + 2 * padding))

draw_image_rgb(c, fb, w, h, x, y, pil_image) ==
    IF FramebufferAbsent(c, fb) THEN Effect(fb, <<>>)
    ELSE LET pil_image_rgb == IF IsRGBA(pil_image) THEN ConvertRGB(pil_image) ELSE pil_image
             fb2 == Paste(fb, pil_image_rgb, x, y)
         IN Effect(fb2, update_framebuffer_region(c, fb2, w, h, x, y,
                                                  pil_image_rgb.w, pil_image_rgb.h))

\* the source never cropped: an image hanging off the left or top edge is
\* read from its first column and row
BlitGeometry_uncropped(w, h, x, y, img_width, img_height) ==
    LET draw_x == Max(0, x)
        draw_y == Max(0, y)
    IN <<draw_x, draw_y, 0, 0, Min(img_width, w - draw_x), Min(img_height, h - draw_y)>>

\* the clipped placement of an image: <<draw_x, draw_y, src_x0, src_y0, blit_w, blit_h>>
BlitGeometry(w, h, x, y, img_width, img_height) ==
    LET draw_x == Max(0, x)
        draw_y == Max(0, y)
        src_crop_x0 == IF x >= 0 THEN 0 ELSE -x
        src_crop_y0 == IF y >= 0 THEN 0 ELSE -y
    IN <<draw_x, draw_y, src_crop_x0, src_crop_y0,
         Min(img_width - src_crop_x0, w - draw_x),
         Min(img_height - src_crop_y0, h - draw_y)>>

\* the image composited under the framebuffer's region instead of over it
draw_image_rgba_composited_under(c, fb, w, h, x, y, pil_image) ==
    IF FramebufferAbsent(c, fb)
    THEN IF c.has_pil
         THEN Outcome(c, fb, draw_image_rgb565(c, w, h, x, y, pil_image.w, pil_image.h,
                                               pil_image_to_rgb565_bytearray(pil_image)))
         ELSE Effect(fb, <<>>)
    ELSE LET pil_image_rgba == IF IsRGBA(pil_image) THEN pil_image ELSE ConvertRGBA(pil_image)
             g == BlitGeometry(w, h, x, y, pil_image_rgba.w, pil_image_rgba.h)
         IN IF g[5] <= 0 \/ g[6] <= 0 THEN Effect(fb, <<>>)
            ELSE LET fg_cropped_rgba == Crop(pil_image_rgba, g[3], g[4], g[3] + g[5],
                                             g[4] + g[6], <<0, 0, 0, 0>>)
                     bg_region_rgb == Crop(fb, g[1], g[2], g[1] + g[5], g[2] + g[6],
                                           <<0, 0, 0>>)
                     composited_region_rgb ==
                         ConvertRGB(AlphaComposite(fg_cropped_rgba, ConvertRGBA(bg_region_rgb)))
                     fb2 == Paste(fb, composited_region_rgb, g[1], g[2])
                 IN Effect(fb2, update_framebuffer_region(c, fb2, w, h, g[1], g[2], g[5], g[6]))

draw_image_rgba_composited(c, fb, w, h, x, y, pil_image) ==
    IF FramebufferAbsent(c, fb)
    THEN IF c.has_pil
         THEN Outcome(c, fb, draw_image_rgb565(c, w, h, x, y, pil_image.w, pil_image.h,
                                               pil_image_to_rgb565_bytearray(pil_image)))
         ELSE Effect(fb, <<>>)
    ELSE LET pil_image_rgba == IF IsRGBA(pil_image) THEN pil_image ELSE ConvertRGBA(pil_image)
             g == BlitGeometry(w, h, x, y, pil_image_rgba.w, pil_image_rgba.h)
         IN IF g[5] <= 0 \/ g[6] <= 0 THEN Effect(fb, <<>>)
            ELSE LET fg_cropped_rgba == Crop(pil_image_rgba, g[3], g[4], g[3] + g[5],
                                             g[4] + g[6], <<0, 0, 0, 0>>)
                     bg_region_rgb == Crop(fb, g[1], g[2], g[1] + g[5], g[2] + g[6],
                                           <<0, 0, 0>>)
                     composited_region_rgb ==
                         ConvertRGB(AlphaComposite(ConvertRGBA(bg_region_rgb), fg_cropped_rgba))
                     fb2 == Paste(fb, composited_region_rgb, g[1], g[2])
                 IN Effect(fb2, update_framebuffer_region(c, fb2, w, h, g[1], g[2], g[5], g[6]))

\* the raw buffer also pasted into the framebuffer, to keep the mirror current
raw_blit_mirrored(c, fb, w, h, x, y, width_, height_, buf) ==
    LET img == [w |-> width_, h |-> height_,
                px |-> [p \in Coords(width_, height_) |->
                    rgb565_to_rgb888_tuple(buf[2 * (p[2] * width_ + p[1]) + 1] * 256
                                           + buf[2 * (p[2] * width_ + p[1]) + 2])]]
    IN Outcome(c, IF FramebufferAbsent(c, fb) THEN fb ELSE Paste(fb, img, x, y),
               draw_image_rgb565(c, w, h, x, y, width_, height_, buf))

\* a public call of draw_image_rgb565: bus traffic only, the framebuffer as it was
raw_blit(c, fb, w, h, x, y, width_, height_, buf) ==
    Outcome(c, fb, draw_image_rgb565(c, w, h, x, y, width_, height_, buf))

-----------------------------------------------------------------------------
(* The panel-controller operations *)

reset(c) ==
    IF c.rst
    THEN <<PinEv("rst", 1), SleepEv(10), PinEv("rst", 0), SleepEv(10),
           PinEv("rst", 1), SleepEv(10)>>
    ELSE <<>>

\* the register writes of init_display before sleep-out, each a command and
\* its payload
InitCommands ==
    <<<<239, NoneBytes>>, <<235, <<20>>>>, <<254, NoneBytes>>, <<239, NoneBytes>>,
      <<235, <<20>>>>, <<132, <<64>>>>, <<133, <<255>>>>, <<134, <<255>>>>,
      <<135, <<255>>>>, <<136, <<10>>>>, <<137, <<33>>>>, <<138, <<0>>>>,
      <<139, <<128>>>>, <<140, <<1>>>>, <<141, <<1>>>>, <<142, <<255>>>>,
      <<143, <<255>>>>, <<182, <<0, 32>>>>, <<54, <<madctl_val>>>>, <<58, <<5>>>>,
      <<144, <<8, 8, 8, 8>>>>, <<189, <<6>>>>, <<188, <<0>>>>, <<255, <<96, 1, 4>>>>,
      <<195, <<19>>>>, <<196, <<19>>>>, <<201, <<34>>>>, <<190, <<17>>>>,
      <<225, <<16, 14>>>>, <<223, <<33, 12, 2>>>>,
      <<240, <<69, 9, 8, 8, 38, 42>>>>, <<241, <<67, 112, 114, 54, 55, 111>>>>,
      <<242, <<69, 9, 8, 8, 38, 42>>>>, <<243, <<67, 112, 114, 54, 55, 111>>>>,
      <<237, <<27, 11>>>>, <<174, <<119>>>>, <<205, <<99>>>>,
      <<112, <<7, 7, 4, 14, 15, 9, 7, 8, 3>>>>, <<232, <<52>>>>,
      <<98, <<24, 13, 113, 237, 112, 112, 24, 15, 113, 239, 112, 112>>>>,
      <<99, <<24, 17, 113, 241, 112, 112, 24, 19, 113, 243, 112, 112>>>>,
      <<100, <<40, 41, 241, 1, 241, 0, 7>>>>,
      <<102, <<60, 0, 205, 103, 69, 69, 16, 0, 0, 0>>>>,
      <<103, <<0, 60, 0, 0, 0, 1, 84, 16, 50, 152>>>>,
      <<116, <<16, 133, 128, 0, 0, 78, 0>>>>, <<152, <<62, 7>>>>,
      <<53, NoneBytes>>, <<33, NoneBytes>>>>

RECURSIVE Configure(_, _)
Configure(c, k) ==
    IF k > Len(InitCommands) THEN <<>>
    ELSE write_cmd_bytes_data(c, InitCommands[k][1], InitCommands[k][2])
         \o Configure(c, k + 1)

backlight_on(c) == IF c.bl THEN <<PinEv("bl", 1)>> ELSE <<>>
backlight_off(c) == IF c.bl THEN <<PinEv("bl", 0)>> ELSE <<>>

display_on(c) == write_cmd_no_args(c, CMD_DISPON) \o <<SleepEv(10)>>
display_off(c) == write_cmd_no_args(c, CMD_DISPOFF) \o <<SleepEv(10)>>

\* the display switched on before the panel is woken
init_display_on_first(c, fb, w, h) ==
    LET ev == Attempt(c, reset(c) \o <<SleepEv(100)>> \o Configure(c, 1)
                         \o write_cmd_no_args(c, CMD_DISPON) \o <<SleepEv(20)>>
                         \o write_cmd_no_args(c, CMD_SLPOUT) \o <<SleepEv(120)>>
                         \o backlight_on(c))
    IN IF Raised(ev) THEN Raise(fb, ev)
       ELSE Effect(IF FramebufferAbsent(c, fb) THEN fb
                   ELSE DrawRectangle(fb, 0, 0, w, h, <<0, 0, 0>>, NoneRGB, 1), ev)

\* init_display: the reset pulse, the register writes, sleep-out, display-on,
\* the backlight, and the framebuffer painted black (and not pushed)
init_display(c, fb, w, h) ==
    LET ev == Attempt(c, reset(c) \o <<SleepEv(100)>> \o Configure(c, 1)
                         \o write_cmd_no_args(c, CMD_SLPOUT) \o <<SleepEv(120)>>
                         \o write_cmd_no_args(c, CMD_DISPON) \o <<SleepEv(20)>>
                         \o backlight_on(c))
    IN IF Raised(ev) THEN Raise(fb, ev)
       ELSE Effect(IF FramebufferAbsent(c, fb) THEN fb
                   ELSE DrawRectangle(fb, 0, 0, w, h, <<0, 0, 0>>, NoneRGB, 1), ev)

\* the panel's power state after the events of a call, from state
\* [sleeping, on, dc]: a low reset line puts it to sleep with the display
\* off, and the sleep and display commands, sent as commands, switch each
RECURSIVE PowerApply(_, _)
PowerApply(st, events) ==
    IF events = <<>> THEN st
    ELSE IF Len(events) > 1
    THEN LET half == PowerApply(st, SubSeq(events, 1, Len(events) \div 2))
         IN IF half.dc >= 0
            THEN PowerApply(half, SubSeq(events, Len(events) \div 2 + 1, Len(events)))
            ELSE half
    ELSE LET e == Head(events)
             next ==
                IF e.t = "rst" /\ e.v = 0 THEN [st EXCEPT !.sleeping = TRUE, !.on = FALSE]
                ELSE IF e.t = "dc" THEN [st EXCEPT !.dc = e.v]
                ELSE IF e.t = "spi" /\ st.dc = 0 /\ e.data = <<CMD_SLPOUT>>
                     THEN [st EXCEPT !.sleeping = FALSE]
                ELSE IF e.t = "spi" /\ st.dc = 0 /\ e.data = <<CMD_SLPIN>>
                     THEN [st EXCEPT !.sleeping = TRUE]
                ELSE IF e.t = "spi" /\ st.dc = 0 /\ e.data = <<CMD_DISPON>>
                     THEN [st EXCEPT !.on = TRUE]
                ELSE IF e.t = "spi" /\ st.dc = 0 /\ e.data = <<CMD_DISPOFF>>
                     THEN [st EXCEPT !.on = FALSE]
                ELSE st
         IN next

-----------------------------------------------------------------------------
(* The state machine *)

\* the example's wiring: no manual chip-select, every other collaborator given
\* fail is the bus's conduct: the number, within a call, of the write on which
\* it raises, 0 for a bus that never does
ExampleCfg ==
    [cs |-> FALSE, dc |-> TRUE, rst |-> TRUE, bl |-> TRUE, spi |-> TRUE, has_pil |-> TRUE,
     fail |-> 0]

\* the state GC9A01.__init__ leaves: chip-select high when driven, data/command
\* low, a black framebuffer when Pillow is there and none when it is not
Constructed(w, h, c) ==
    /\ width = w
    /\ height = h
    /\ cfg = c
    /\ framebuffer = IF c.has_pil THEN ImageNew(w, h, <<0, 0, 0>>) ELSE NoImage
    /\ io = cs_high(c) \o (IF c.dc THEN <<PinEv("dc", 0)>> ELSE <<>>)
    /\ gram = [p \in {} |-> 0]
    /\ window = <<0, DefaultWidth - 1, 0, DefaultHeight - 1>>
    /\ hist = <<>>
    /\ ret = <<>>

Init == Constructed(Width, Height, ExampleCfg)

\* one call of a drawing operation: its effect on the framebuffer, its events,
\* and what the panel makes of the bytes it received
Call(op, args, eff) ==
    /\ Len(hist) < MaxOps
    /\ LET e == eff
           st == Panel(gram, window, e.ev)
       IN /\ framebuffer' = e.fb
          /\ io' = e.ev
          /\ gram' = st.mem
          /\ window' = st.win
          /\ hist' = Append(hist, [op |-> op, args |-> args, raised |-> e.raised,
                                   syncs |-> SyncRegions(e.ev)])
    /\ UNCHANGED <<width, height, cfg, ret>>

Pixel(x, y, color) ==
    Call("pixel", <<x, y, color>>, pixel(cfg, framebuffer, width, height, x, y, color))

Line(x0, y0, x1, y1, color, lw) ==
    Call("line", <<x0, y0, x1, y1, color, lw>>,
         line(cfg, framebuffer, width, height, x0, y0, x1, y1, color, lw))

Rectangle(x, y, rw, rh, outline, fill, ow) ==
    Call("rectangle", <<x, y, rw, rh, outline, fill, ow>>,
         rectangle(cfg, framebuffer, width, height, x, y, rw, rh, outline, fill, ow))

FillRect(x, y, rw, rh, color) ==
    Call("fill_rect", <<x, y, rw, rh, color>>,
         fill_rect(cfg, framebuffer, width, height, x, y, rw, rh, color))

FillScreen(color) ==
    Call("fill_screen", <<color>>, fill_screen(cfg, framebuffer, width, height, color))

Circle(x_c, y_c, r, outline, fill, ow) ==
    Call("circle", <<x_c, y_c, r, outline, fill, ow>>,
         circle(cfg, framebuffer, width, height, x_c, y_c, r, outline, fill, ow))

Oval(x0, y0, x1, y1, outline, fill, ow) ==
    Call("oval", <<x0, y0, x1, y1, outline, fill, ow>>,
         oval(cfg, framebuffer, width, height, x0, y0, x1, y1, outline, fill, ow))

DrawImageRgb(x, y, img) ==
    Call("draw_image_rgb", <<x, y, img>>,
         draw_image_rgb(cfg, framebuffer, width, height, x, y, img))

DrawImageRgbaComposited(x, y, img) ==
    Call("draw_image_rgba_composited", <<x, y, img>>,
         draw_image_rgba_composited(cfg, framebuffer, width, height, x, y, img))

DrawImageRgb565(x, y, w, h, buf) ==
    Call("draw_image_rgb565", <<x, y, w, h, buf>>,
         raw_blit(cfg, framebuffer, width, height, x, y, w, h, buf))

\* a call of a pure helper: it returns a value and touches nothing else
Helper(op, args, value) ==
    /\ ret' = value
    /\ hist' = Append(hist, [op |-> op, args |-> args, raised |-> FALSE, syncs |-> <<>>])
    /\ UNCHANGED <<width, height, cfg, framebuffer, gram, window, io>>

Rgb565ToRgb888Tuple(v) ==
    Helper("rgb565_to_rgb888_tuple", <<v>>, rgb565_to_rgb888_tuple(v))

Rgb888TupleToRgb565Int(t) ==
    Helper("rgb888_tuple_to_rgb565_int", <<t>>, <<rgb888_tuple_to_rgb565_int(t)>>)

SetWindow(x0, y0, x1, y1) ==
    Call("set_window", <<x0, y0, x1, y1>>,
         Outcome(cfg, framebuffer, set_window(cfg, width, height, x0, y0, x1, y1)))

Reset == Call("reset", <<>>, Outcome(cfg, framebuffer, reset(cfg)))

InitDisplay == Call("init_display", <<>>, init_display(cfg, framebuffer, width, height))

DisplayOn == Call("display_on", <<>>, Outcome(cfg, framebuffer, display_on(cfg)))

DisplayOff == Call("display_off", <<>>, Outcome(cfg, framebuffer, display_off(cfg)))

BacklightOn == Call("backlight_on", <<>>, Outcome(cfg, framebuffer, backlight_on(cfg)))

BacklightOff == Call("backlight_off", <<>>, Outcome(cfg, framebuffer, backlight_off(cfg)))

WriteRamPrepare ==
    Call("write_ram_prepare", <<>>, Outcome(cfg, framebuffer, write_ram_prepare(cfg)))

\* a buffer of n bytes whose content differs from chunk to chunk
Buffer(n, seed) == [k \in 1 .. n |-> (7 * k + 13 * seed + (k \div SPI_CHUNK_SIZE_BYTES)) % 256]

\* _write_data called with a bytes buffer, with a list, with anything else
WriteData(kind, n, seed) ==
    Call("write_data", <<kind, n, seed>>,
         Outcome(cfg, framebuffer,
                 IF kind = "bytes" THEN write_data(cfg, Buffer(n, seed))
                 ELSE IF kind = "list" THEN write_data_list(cfg, Buffer(n, seed))
                 ELSE write_data_other(cfg)))

\* _update_framebuffer_region called with a region
UpdateFramebufferRegion(x, y, rw, rh) ==
    Call("update_framebuffer_region", <<x, y, rw, rh>>,
         Effect(framebuffer,
                update_framebuffer_region(cfg, framebuffer, width, height, x, y, rw, rh)))

-----------------------------------------------------------------------------
(* Inputs *)

\* RGB565 of the example's (0,50,100) and (200,0,0), and white
Colors == {396, 51200}
White565 == 65535

\* RGB888 values for image pixels: one not representable in RGB565, one that is
Palette == {<<0, 50, 100>>, <<255, 255, 255>>}

Images(w, h, pal) == {[w |-> w, h |-> h, px |-> f] : f \in [Coords(w, h) -> pal]}

Xs == -1 .. width
Ys == -1 .. height

LastCall == hist[Len(hist)]
Called(op) == hist # <<>> /\ LastCall.op = op

------------------------------------------------------------------------

-----------------------------------------------------------------------------
(* Spec: every framebuffer-backed drawing operation, from the constructed  *)
(* driver                                                                  *)

TwoTone(imgs) == {i \in imgs : i.px[<<0, 0>>] # i.px[<<1, 0>>]}

Next ==
    \/ \E color \in Colors : FillScreen(color)
    \/ \E p \in {<<-1, 0>>, <<0, 0>>, <<width - 1, height - 1>>, <<width, 0>>, <<0, height>>} :
            Pixel(p[1], p[2], White565)
    \/ \E l \in {<<0, 0, width - 1, height - 1, 1>>, <<-1, 1, width - 1, 0, 1>>,
                 <<-1, 1, width, 1, 3>>, <<width - 1, -1, width - 1, height, 2>>,
                 <<0, height - 1, 1, -1, 3>>} :
            Line(l[1], l[2], l[3], l[4], White565, l[5])
    \/ \E x \in {-1, width - 1},
          st \in {<<White565, None565, 1>>, <<White565, 396, 2>>, <<None565, None565, 1>>} :
            Rectangle(x, 0, 2, 2, st[1], st[2], st[3])
    \/ \E x \in {-2, 1, width} : FillRect(x, 0, 2, 3, White565)
    \/ \E k \in {<<0, 1, 1, White565, None565>>, <<width - 1, 1, 1, None565, White565>>,
                 <<width - 1, 0, 2, White565, None565>>, <<0, -1, 2, White565, 396>>} :
            Circle(k[1], k[2], k[3], k[4], k[5], 1)
    \/ \E b \in {<<0, 0, width - 1, height - 1>>, <<width, 1, 1, -1>>},
          st \in {<<White565, None565, 1>>, <<White565, 396, 2>>, <<None565, White565, 0>>} :
            Oval(b[1], b[2], b[3], b[4], st[1], st[2], st[3])
    \/ \E x \in {-1, width - 1}, img \in TwoTone(Images(2, 1, Palette)) :
            DrawImageRgb(x, height - 1, img)
    \/ \E x \in {-1, width - 1},
          img \in TwoTone(Images(2, 1, {<<0, 50, 100, 128>>, <<255, 255, 255, 255>>})) :
            DrawImageRgbaComposited(x, 0, img)

Spec == Init /\ [][Next]_vars

-----------------------------------------------------------------------------
(* SpecRect: screen fills and rectangles at every placement around the     *)
(* panel                                                                   *)

NextRect ==
    \/ \E color \in Colors : FillScreen(color)
    \/ \E x \in Xs, y \in {-1, 0, height} : FillRect(x, y, 1, 1, White565)
    \/ \E x \in Xs : FillRect(x, 0, 2, 1, 51200)
    \/ \E x \in {-3, 0, width + 1}, s \in {<<2, 2>>, <<0, 1>>},
          st \in {<<White565, None565, 1>>, <<396, White565, 2>>} :
            Rectangle(x, 0, s[1], s[2], st[1], st[2], st[3])

SpecRect == Init /\ [][NextRect]_vars

-----------------------------------------------------------------------------
(* SpecImage: images composited and blitted at every placement around the  *)
(* panel, over a background an opaque image has made uneven                *)

\* three RGBA images: one with a clear and an opaque column, one with a clear
\* and an opaque row, one half-transparent throughout
Overlays ==
    {[w |-> 2, h |-> 2, px |-> [p \in Coords(2, 2) |->
            IF p[1] = 0 THEN <<200, 0, 0, 0>> ELSE <<0, 50, 100, 255>>]],
     [w |-> 2, h |-> 2, px |-> [p \in Coords(2, 2) |->
            IF p[2] = 0 THEN <<255, 255, 255, 255>> ELSE <<0, 50, 100, 0>>]],
     ImageNew(2, 2, <<255, 255, 255, 128>>)}

\* two RGB images to blit raw: one split by column, one by row
Sources ==
    {[w |-> 2, h |-> 2, px |-> [p \in Coords(2, 2) |->
            IF p[1] = 0 THEN <<200, 0, 0>> ELSE <<0, 50, 100>>]],
     [w |-> 2, h |-> 2, px |-> [p \in Coords(2, 2) |->
            IF p[2] = 0 THEN <<255, 255, 255>> ELSE <<200, 0, 0>>]]}

NextImage ==
    \/ FillScreen(396)
    \/ \E img \in TwoTone(Images(2, 1, Palette)) : DrawImageRgb(0, 0, img)
    \/ \E x \in {-1, 0, width - 1, width}, y \in {-1, height - 1}, img \in Overlays :
            DrawImageRgbaComposited(x, y, img)
    \/ \E p \in {<<-1, -1>>, <<0, 0>>, <<width - 1, height - 1>>, <<width, 0>>,
                 <<0, height>>, <<-2, 0>>},
          img \in Sources :
            DrawImageRgb565(p[1], p[2], 2, 2, pil_image_to_rgb565_bytearray(img))

SpecImage == Init /\ [][NextImage]_vars

-----------------------------------------------------------------------------
(* SpecColor: the colour conversions on every RGB565 value: up, down, and  *)
(* up again                                                                *)

NextColor ==
    \/ hist = <<>> /\ \E v \in 0 .. 65535 : Rgb565ToRgb888Tuple(v)
    \/ Len(hist) = 1 /\ Rgb888TupleToRgb565Int(ret)
    \/ Len(hist) = 2 /\ Rgb565ToRgb888Tuple(ret[1])

SpecColor == Init /\ [][NextColor]_vars

-----------------------------------------------------------------------------
(* SpecWindow: set_window on a driver constructed without Pillow, on the   *)
(* default panel and on a wider one whose coordinates need two bytes       *)

WideWidth == 320

WindowCoords == {-5, 0, 5, 10, 239, 240, 300, 400}

InitWindow ==
    \E w \in {DefaultWidth, WideWidth} :
        Constructed(w, DefaultHeight, [ExampleCfg EXCEPT !.has_pil = FALSE])

NextWindow ==
    hist = <<>> /\ \E x0 \in WindowCoords, y0 \in WindowCoords,
                      x1 \in WindowCoords, y1 \in WindowCoords :
                        SetWindow(x0, y0, x1, y1)

SpecWindow == InitWindow /\ [][NextWindow]_vars

-----------------------------------------------------------------------------
(* SpecPanel: the panel-controller operations on drivers constructed with  *)
(* every combination of reset pin, backlight pin, data/command pin and bus *)
(* given or left as None                                                   *)

InitPanel ==
    \E rst \in BOOLEAN, bl \in BOOLEAN, dc \in BOOLEAN, spi \in BOOLEAN :
        Constructed(Width, Height,
                    [ExampleCfg EXCEPT !.rst = rst, !.bl = bl, !.dc = dc, !.spi = spi])

NextPanel ==
    \/ Reset
    \/ InitDisplay
    \/ DisplayOn
    \/ DisplayOff
    \/ BacklightOn
    \/ BacklightOff
    \/ WriteRamPrepare
    \/ \E a \in {<<0, 0, width - 1, height - 1>>, <<width, 1, -1, 0>>} :
            SetWindow(a[1], a[2], a[3], a[4])

SpecPanel == InitPanel /\ [][NextPanel]_vars

-----------------------------------------------------------------------------
(* SpecFault: drawing on a driver whose bus raises on the n-th write of    *)
(* each call, for every n up to the writes one sync makes, with and        *)
(* without a chip-select pin                                               *)

MaxFault == 6

InitFault ==
    \E f \in 0 .. MaxFault, cs \in BOOLEAN :
        Constructed(Width, Height, [ExampleCfg EXCEPT !.fail = f, !.cs = cs])

NextFault ==
    \/ \E color \in Colors : FillScreen(color)
    \/ \E x \in {0, width - 2} : FillRect(x, 0, 2, 1, White565)
    \/ \E p \in {<<0, 0>>, <<width - 1, height - 1>>} : Pixel(p[1], p[2], White565)
    \/ \E img \in TwoTone(Images(2, 1, Palette)) : DrawImageRgb(width - 2, height - 1, img)
    \/ \E img \in Sources :
            DrawImageRgb565(width - 2, 0, 2, 2, pil_image_to_rgb565_bytearray(img))

SpecFault == InitFault /\ [][NextFault]_vars

-----------------------------------------------------------------------------
(* SpecShape: circles of radius 0 and the degenerate calls (a pixel off    *)
(* the panel, a rectangle without extent, a circle of negative radius, an  *)
(* image wholly off the panel), over a filled screen                       *)

NextShape ==
    \/ \E color \in Colors : FillScreen(color)
    \/ \E p \in {<<0, 0>>, <<width - 1, height - 1>>},
          st \in {<<White565, None565>>, <<None565, 51200>>, <<White565, 51200>>} :
            Circle(p[1], p[2], 0, st[1], st[2], 1)
    \/ \E p \in {<<-1, 0>>, <<width, 0>>, <<0, -1>>, <<0, height>>} :
            Pixel(p[1], p[2], White565)
    \/ \E s \in {<<0, 1>>, <<1, -1>>, <<-2, 2>>},
          st \in {<<White565, None565>>, <<White565, 51200>>} :
            Rectangle(0, 0, s[1], s[2], st[1], st[2], 1)
    \/ \E st \in {<<White565, None565>>, <<White565, 51200>>} :
            Circle(1, 1, -1, st[1], st[2], 1)
    \/ \E p \in {<<0, 0>>, <<width - 1, height - 1>>, <<width, 0>>} :
            Circle(p[1], p[2], 0, None565, None565, 1)
    \/ \E p \in {<<-2, 0>>, <<width, 0>>, <<0, -2>>, <<0, height>>}, img \in Overlays :
            DrawImageRgbaComposited(p[1], p[2], img)

SpecShape == Init /\ [][NextShape]_vars

-----------------------------------------------------------------------------
(* SpecPadding: one line, rectangle, circle or oval, of every stroke width *)
(* and style, drawn well inside a panel large enough that the region it    *)
(* asks for is pushed as asked                                             *)

PadSide == 12
MaxStroke == 3

\* outline and fill of a shape: outlined, outlined and filled, filled only
Styles == {<<White565, None565>>, <<White565, 51200>>, <<None565, 51200>>}

InitPadding == Constructed(PadSide, PadSide, ExampleCfg)

NextPadding ==
    /\ hist = <<>>
    /\ \/ \E l \in {<<4, 4, 7, 4>>, <<4, 7, 4, 4>>, <<4, 4, 7, 6>>, <<7, 4, 5, 7>>,
                     <<5, 5, 5, 5>>, <<4, 7, 7, 4>>, <<6, 7, 4, 4>>},
              lw \in 1 .. MaxStroke :
                Line(l[1], l[2], l[3], l[4], White565, lw)
       \/ \E r \in {<<4, 4, 3, 2>>, <<5, 4, 1, 4>>, <<4, 5, 4, 4>>}, st \in Styles,
              ow \in 1 .. MaxStroke :
                Rectangle(r[1], r[2], r[3], r[4], st[1], st[2], ow)
       \/ \E k \in {<<5, 5, 1>>, <<5, 6, 2>>, <<6, 5, 2>>}, st \in Styles,
              ow \in 1 .. MaxStroke :
                Circle(k[1], k[2], k[3], st[1], st[2], ow)
       \/ \E b \in {<<4, 4, 7, 6>>, <<7, 7, 4, 5>>, <<5, 4, 5, 7>>}, st \in Styles,
              ow \in 1 .. MaxStroke :
                Oval(b[1], b[2], b[3], b[4], st[1], st[2], ow)

SpecPadding == InitPadding /\ [][NextPadding]_vars

-----------------------------------------------------------------------------
(* SpecRegion: _update_framebuffer_region asked for regions on, across and *)
(* off every edge of the panel, and for regions without extent             *)

NextRegion ==
    \/ \E color \in Colors : FillScreen(color)
    \/ \E x \in {-2, -1, width - 1, width}, y \in {-1, 0, height},
          s \in {<<1, 1>>, <<2, 2>>, <<0, 1>>} :
            UpdateFramebufferRegion(x, y, s[1], s[2])

SpecRegion == Init /\ [][NextRegion]_vars

-----------------------------------------------------------------------------
(* SpecChunk: _write_data given buffers whose lengths lie on, just under   *)
(* and just over the multiples of the chunk size                           *)

MaxChunks == 3
MaxSeed == 8

Lengths == {k * SPI_CHUNK_SIZE_BYTES + d : k \in 0 .. MaxChunks, d \in {0, 1, 4095}}

NextChunk ==
    /\ hist = <<>>
    /\ \/ \E n \in Lengths, seed \in 0 .. MaxSeed : WriteData("bytes", n, seed)
       \/ WriteData("list", SPI_CHUNK_SIZE_BYTES + 1, 0)
       \/ WriteData("other", 0, 0)

SpecChunk == Init /\ [][NextChunk]_vars

-----------------------------------------------------------------------------
(* The claims *)

FilledOnce == \E i \in 1 .. Len(hist) : hist[i].op = "fill_screen"

\* panel memory equals the framebuffer: every pixel of the panel has been
\* written, and the last value written is the RGB565 of the framebuffer's pixel
Mirrored ==
    \A p \in Coords(width, height) :
        /\ p \in DOMAIN gram
        /\ gram[p] = rgb888_tuple_to_rgb565_int(framebuffer.px[p])

\* C1: once fill_screen has been called, after any further sequence of the
\* framebuffer-backed drawing operations the panel memory equals the
\* framebuffer at every pixel of the panel
C1_PanelMirrorsFramebuffer == FilledOnce => Mirrored

\* a line that starts off the panel has been drawn over a filled screen, and
\* the framebuffer is no longer of one colour
C1_Witness ==
    /\ Len(hist) = 2
    /\ hist[1].op = "fill_screen"
    /\ hist[2].op = "line" /\ hist[2].args[1] < 0
    /\ \E p, q \in Coords(width, height) : framebuffer.px[p] # framebuffer.px[q]
    /\ Mirrored

\* a rectangle of positive size that shares no pixel with the panel
RectOutside(x, y, rw, rh) ==
    /\ rw > 0 /\ rh > 0
    /\ (x >= width \/ y >= height \/ x + rw <= 0 \/ y + rh <= 0)

NoBusWrite(events) == \A k \in 1 .. Len(events) : events[k].t # "spi"

\* C2: rectangle or fill_rect with a rectangle entirely outside the panel
\* leaves every framebuffer pixel unchanged and issues no bus transfer
C2_OutsideRectangleIsSilent ==
    [][(/\ Len(hist') = Len(hist) + 1
        /\ hist'[Len(hist')].op \in {"rectangle", "fill_rect"}
        /\ RectOutside(hist'[Len(hist')].args[1], hist'[Len(hist')].args[2],
                       hist'[Len(hist')].args[3], hist'[Len(hist')].args[4]))
       => (framebuffer' = framebuffer /\ NoBusWrite(io'))]_vars

RectInside(x, y, rw, rh) ==
    rw > 0 /\ rh > 0 /\ x >= 0 /\ y >= 0 /\ x + rw <= width /\ y + rh <= height

\* C3: fill_screen(c) followed by fill_rect(x,y,w,h,c2) with the rectangle
\* inside the panel makes exactly two hardware syncs, of the whole panel and
\* then of the rectangle, and leaves c2 in the rectangle and c everywhere else
C3_FillThenRectTwoSyncs ==
    \A i \in 1 .. Len(hist) - 1 :
        (/\ i + 1 = Len(hist)
         /\ hist[i].op = "fill_screen"
         /\ hist[i + 1].op = "fill_rect"
         /\ RectInside(hist[i + 1].args[1], hist[i + 1].args[2],
                       hist[i + 1].args[3], hist[i + 1].args[4]))
        => LET a == hist[i + 1].args
           IN /\ hist[i].syncs \o hist[i + 1].syncs
                    = <<<<0, 0, width, height>>, <<a[1], a[2], a[3], a[4]>>>>
              /\ \A p \in Coords(width, height) :
                    framebuffer.px[p] =
                        IF p \in Box(a[1], a[2], a[1] + a[3] - 1, a[2] + a[4] - 1)
                        THEN rgb565_to_rgb888_tuple(a[5])
                        ELSE rgb565_to_rgb888_tuple(hist[i].args[1])

\* a two-pixel rectangle has been filled inside a screen filled with another
\* colour
C3_Witness ==
    /\ Len(hist) = 2
    /\ hist[1].op = "fill_screen" /\ hist[1].args[1] = 396
    /\ hist[2].op = "fill_rect" /\ hist[2].args = <<1, 0, 2, 1, 51200>>
    /\ hist[2].syncs = <<<<1, 0, 2, 1>>>>
    /\ framebuffer.px[<<0, 0>>] = <<0, 49, 99>>
    /\ framebuffer.px[<<1, 0>>] = <<206, 0, 0>>

\* C6: after fill_screen(c), whatever the framebuffer held, every framebuffer
\* pixel is the RGB888 form of c and the whole panel is the region pushed
C6_FillScreenFillsAll ==
    Called("fill_screen") =>
        /\ \A p \in Coords(width, height) :
                framebuffer.px[p] = rgb565_to_rgb888_tuple(LastCall.args[1])
        /\ LastCall.syncs = <<<<0, 0, width, height>>>>

\* the screen has been filled over a framebuffer that a rectangle had left
\* uneven
C6_Witness ==
    /\ Len(hist) = 2
    /\ hist[1].op = "fill_rect" /\ hist[1].args = <<0, 0, 1, 1, 65535>>
    /\ hist[2].op = "fill_screen"
    /\ framebuffer = ImageNew(width, height, rgb565_to_rgb888_tuple(hist[2].args[1]))

\* C4: for every 16-bit RGB565 value v, converting v up to RGB888 and back
\* down gives v again, and the up-converted triple survives a further trip
\* down to RGB565 and up again
C4_RoundTrip565 ==
    /\ (Len(hist) = 2 /\ hist[2].op = "rgb888_tuple_to_rgb565_int")
            => ret = hist[1].args
    /\ (Len(hist) = 3) => (hist[3].args = hist[1].args /\ ret = hist[2].args[1])

\* a value with low bits set in every field has made the whole trip
C4_Witness ==
    /\ Len(hist) = 3
    /\ hist[1].args = <<396>>
    /\ hist[2].args = <<<<0, 49, 99>>>>
    /\ ret = <<0, 49, 99>>

\* C5: the up-conversion maps a 5-bit red or blue field of 0 to 0 and of 31 to
\* 255, a 6-bit green field of 0 to 0 and of 63 to 255, and every output
\* channel lies in 0..255
C5_ExtremesExact ==
    (Len(hist) = 1 /\ hist[1].op = "rgb565_to_rgb888_tuple") =>
        LET v == hist[1].args[1]
            r5 == v \div 2048
            g6 == (v \div 32) % 64
            b5 == v % 32
        IN /\ Len(ret) = 3
           /\ \A i \in 1 .. 3 : ret[i] \in 0 .. 255
           /\ (r5 = 0 => ret[1] = 0) /\ (r5 = 31 => ret[1] = 255)
           /\ (g6 = 0 => ret[2] = 0) /\ (g6 = 63 => ret[2] = 255)
           /\ (b5 = 0 => ret[3] = 0) /\ (b5 = 31 => ret[3] = 255)

\* full red with no green and full blue has been converted
C5_Witness ==
    Len(hist) = 1 /\ hist[1].args = <<63519>> /\ ret = <<255, 0, 255>>

\* the step is one call of the named operation
Calls(op) == Len(hist') = Len(hist) + 1 /\ hist'[Len(hist')].op = op

\* C7: in draw_image_rgba_composited, a destination pixel under a source
\* pixel of alpha 0 keeps its framebuffer value, one under a source pixel of
\* alpha 255 becomes the source pixel's RGB, and what is stored is an RGB triple
C7_AlphaExtremes ==
    [][Calls("draw_image_rgba_composited") =>
        LET a == hist'[Len(hist')].args
        IN \A p \in Coords(width, height) :
            /\ Len(framebuffer'.px[p]) = 3
            /\ InImage(a[3], <<p[1] - a[1], p[2] - a[2]>>) =>
                LET src == a[3].px[<<p[1] - a[1], p[2] - a[2]>>]
                IN /\ src[4] = 0 => framebuffer'.px[p] = framebuffer.px[p]
                   /\ src[4] = 255 => framebuffer'.px[p] = <<src[1], src[2], src[3]>>]_vars

\* an image with a clear and an opaque column has been composited on the
\* panel over a two-colour background: one pixel kept, its neighbour replaced
C7_Witness ==
    /\ Len(hist) = 2
    /\ hist[1].op = "draw_image_rgb"
    /\ hist[2].op = "draw_image_rgba_composited"
    /\ hist[2].args[1] = 0 /\ hist[2].args[2] = height - 1
    /\ hist[2].args[3].px[<<0, 0>>] = <<200, 0, 0, 0>>
    /\ hist[2].args[3].px[<<1, 0>>] = <<0, 50, 100, 255>>
    /\ framebuffer.px[<<0, height - 1>>] = <<0, 0, 0>>
    /\ framebuffer.px[<<1, height - 1>>] = <<0, 50, 100>>

\* the part of an image placed at (x, y) that lies on the panel
OnPanel(x, y, img) ==
    {p \in Coords(width, height) : InImage(img, <<p[1] - x, p[2] - y>>)}

\* C8: when draw_image_rgba_composited places an image partly off the panel,
\* only framebuffer pixels in the intersection of the image with the panel
\* change, each is blended with source pixel (px-x, py-y), and the region
\* pushed to the hardware is exactly that intersection
C8_ClippedComposite ==
    [][(/\ Calls("draw_image_rgba_composited")
        /\ LET a == hist'[Len(hist')].args
           IN /\ OnPanel(a[1], a[2], a[3]) # {}
              /\ Cardinality(OnPanel(a[1], a[2], a[3])) < a[3].w * a[3].h)
       => LET a == hist'[Len(hist')].args
              on == OnPanel(a[1], a[2], a[3])
              x0 == IF a[1] < 0 THEN 0 ELSE a[1]
              y0 == IF a[2] < 0 THEN 0 ELSE a[2]
              x1 == IF a[1] + a[3].w > width THEN width ELSE a[1] + a[3].w
              y1 == IF a[2] + a[3].h > height THEN height ELSE a[2] + a[3].h
          IN /\ \A p \in Coords(width, height) \ on :
                    framebuffer'.px[p] = framebuffer.px[p]
             /\ \A p \in on :
                    framebuffer'.px[p] =
                        SubSeq(BlendPixel(framebuffer.px[p] \o <<255>>,
                                          a[3].px[<<p[1] - a[1], p[2] - a[2]>>]), 1, 3)
             /\ hist'[Len(hist')].syncs = <<<<x0, y0, x1 - x0, y1 - y0>>>>]_vars

\* a two-wide image placed one column left of the panel: only its second
\* column, the opaque one, landed, in column 0, and one column was pushed
C8_Witness ==
    /\ Called("draw_image_rgba_composited")
    /\ LastCall.args[1] = -1 /\ LastCall.args[2] = height - 1
    /\ LastCall.args[3].px[<<0, 0>>] = <<200, 0, 0, 0>>
    /\ LastCall.syncs = <<<<0, height - 1, 1, 1>>>>
    /\ framebuffer.px[<<0, height - 1>>] = <<0, 50, 100>>
    /\ framebuffer.px[<<1, height - 1>>] = <<0, 0, 0>>

\* C9: set_window emits, for any x0,y0,x1,y1, the column bounds min and max
\* of the clamped x0,x1 and the row bounds min and max of the clamped y0,y1,
\* so 0<=xs<=xe<=width-1 and 0<=ys<=ye<=height-1, each bound as two bytes
\* high byte first; (300,10,5,400) on 240x240 gives (5,10)-(239,239)
C9_WindowClampedOrdered ==
    Called("set_window") =>
        LET a == LastCall.args
            cl(v, n) == IF v < 0 THEN 0 ELSE IF v > n - 1 THEN n - 1 ELSE v
            lo(u, v) == IF u < v THEN u ELSE v
            hi(u, v) == IF u < v THEN v ELSE u
            xs == lo(cl(a[1], width), cl(a[3], width))
            xe == hi(cl(a[1], width), cl(a[3], width))
            ys == lo(cl(a[2], height), cl(a[4], height))
            ye == hi(cl(a[2], height), cl(a[4], height))
        IN /\ 0 <= xs /\ xs <= xe /\ xe <= width - 1
           /\ 0 <= ys /\ ys <= ye /\ ye <= height - 1
           /\ BusWrites(io, 0) =
                <<[dc |-> 0, data |-> <<CMD_CASET>>],
                  [dc |-> 1, data |-> <<xs \div 256, xs % 256, xe \div 256, xe % 256>>],
                  [dc |-> 0, data |-> <<CMD_RASET>>],
                  [dc |-> 1, data |-> <<ys \div 256, ys % 256, ye \div 256, ye % 256>>]>>
           /\ window = <<xs, xe, ys, ye>>
           /\ (a = <<300, 10, 5, 400>> /\ width = 240 /\ height = 240)
                => window = <<5, 239, 10, 239>>

\* the spec's example: (300,10,5,400) on the 240x240 panel
C9_Witness ==
    /\ Called("set_window")
    /\ LastCall.args = <<300, 10, 5, 400>>
    /\ width = 240 /\ height = 240
    /\ window = <<5, 239, 10, 239>>
    /\ BusWrites(io, 0)[2].data = <<0, 5, 0, 239>>

\* C10: draw_image_rgb565 never changes the framebuffer, whether the image
\* is on the panel, partly clipped or fully off it
C10_RawBlitKeepsFramebuffer ==
    [][Calls("draw_image_rgb565") => framebuffer' = framebuffer]_vars

\* a raw image placed up and left of the panel has been written to the
\* panel's corner while the framebuffer is still black there
C10_Witness ==
    /\ Called("draw_image_rgb565")
    /\ LastCall.args[1] = -1 /\ LastCall.args[2] = -1
    /\ LastCall.syncs = <<<<0, 0, 1, 1>>>>
    /\ gram[<<0, 0>>] # 0
    /\ framebuffer.px[<<0, 0>>] = <<0, 0, 0>>

-----------------------------------------------------------------------------
(* Claims on the panel-controller operations *)

\* the collaborators an operation works through
Needs(op) ==
    IF op = "reset" THEN {"rst"}
    ELSE IF op \in {"backlight_on", "backlight_off"} THEN {"bl"}
    ELSE IF op = "init_display" THEN {"rst", "dc", "spi", "bl"}
    ELSE IF op \in {"display_on", "display_off", "set_window", "write_ram_prepare"}
         THEN {"dc", "spi"}
    ELSE {}

\* no write reached the bus, and none was tried
NoBusAttempt(events) ==
    \A k \in 1 .. Len(events) : events[k].t \notin {"spi", "spi_failed"}

\* C11: a panel-controller operation (reset, init_display, set_window,
\* write_ram_prepare, display_on, display_off, backlight_on, backlight_off)
\* whose pin or bus was given as None returns without raising and without
\* any bus write
C11_UnconfiguredIsSilent ==
    (hist # <<>> /\ \E n \in Needs(LastCall.op) : ~cfg[n])
        => (~LastCall.raised /\ NoBusAttempt(io))

\* the last element of a finite non-empty set of numbers
SetMax(S) == CHOOSE x \in S : \A y \in S : y <= x

\* the level of the data/command line when event k of a log happens
DcAt(events, k) ==
    LET ds == {j \in 1 .. k - 1 : events[j].t = "dc"}
    IN IF ds = {} THEN 0 ELSE events[SetMax(ds)].v

\* where in a log the command byte cmd is written
CommandAt(events, cmd) ==
    {k \in 1 .. Len(events) :
        events[k].t = "spi" /\ events[k].data = <<cmd>> /\ DcAt(events, k) = 0}

\* where in a log any command byte is written
Commands(events) ==
    {k \in 1 .. Len(events) : events[k].t = "spi" /\ DcAt(events, k) = 0}

\* C19: in init_display the reset pulse (high, low, high) is over before the
\* first command byte, every configuration command precedes sleep-out,
\* sleep-out precedes display-on, the backlight, when there is one, goes on
\* after display-on, and on return the panel is out of sleep with the
\* display on
C19_InitOrder ==
    (Called("init_display") /\ ~LastCall.raised) =>
        LET rstAt == {k \in 1 .. Len(io) : io[k].t = "rst"}
            blAt == {k \in 1 .. Len(io) : io[k].t = "bl"}
            cmds == Commands(io)
            wake == CommandAt(io, CMD_SLPOUT)
            on == CommandAt(io, CMD_DISPON)
            power == PowerApply([sleeping |-> TRUE, on |-> FALSE, dc |-> 0], io)
        IN /\ cfg.rst =>
                /\ Cardinality(rstAt) = 3
                /\ \E a, b, c \in rstAt :
                        /\ a < b /\ b < c
                        /\ io[a].v = 1 /\ io[b].v = 0 /\ io[c].v = 1
                        /\ \A k \in cmds : c < k
           /\ Cardinality(wake) = 1 /\ Cardinality(on) = 1
           /\ \A w \in wake, o \in on :
                /\ w < o
                /\ \A k \in cmds \ {w, o} : k < w
                /\ cfg.bl => (blAt # {} /\ \A k \in blAt : o < k /\ io[k].v = 1)
           /\ Cardinality(cmds) = Len(InitCommands) + 2
           /\ ~power.sleeping /\ power.on

\* init_display has run to its end on a driver with every pin and the bus
\* given: the reset line was pulsed, the backlight is on
C19_Witness ==
    /\ Called("init_display") /\ ~LastCall.raised
    /\ cfg.rst /\ cfg.bl /\ cfg.dc /\ cfg.spi
    /\ io[1] = PinEv("rst", 1)
    /\ io[Len(io)] = PinEv("bl", 1)
    /\ Cardinality(Commands(io)) = 50

-----------------------------------------------------------------------------
(* Claims on a failing bus *)

FailedAt(events) == {k \in 1 .. Len(events) : events[k].t = "spi_failed"}

\* the pixel a drawing call is meant to leave at p, given the framebuffer
\* it started from
Meant(op, a, fb, p) ==
    IF op = "fill_screen" THEN rgb565_to_rgb888_tuple(a[1])
    ELSE IF op = "fill_rect" /\ p \in Box(a[1], a[2], a[1] + a[3] - 1, a[2] + a[4] - 1)
         THEN rgb565_to_rgb888_tuple(a[5])
    ELSE IF op = "pixel" /\ p = <<a[1], a[2]>> THEN rgb565_to_rgb888_tuple(a[3])
    ELSE IF op = "draw_image_rgb" /\ InImage(a[3], <<p[1] - a[1], p[2] - a[2]>>)
         THEN a[3].px[<<p[1] - a[1], p[2] - a[2]>>]
    ELSE fb.px[p]

\* C12: when a bus write raises during the hardware sync of a drawing
\* operation, the framebuffer keeps the mutation the operation made, and no
\* further bus write is attempted in that call after the failing one
C12_FailureKeepsMutationNoRetry ==
    [][(/\ Len(hist') = Len(hist) + 1
        /\ FailedAt(io') # {})
       => LET call == hist'[Len(hist')]
          IN /\ \A p \in Coords(width, height) :
                    framebuffer'.px[p] = Meant(call.op, call.args, framebuffer, p)
             /\ Cardinality(FailedAt(io')) = 1
             /\ \A k \in FailedAt(io') :
                    \A j \in k + 1 .. Len(io') : io'[j].t \notin {"spi", "spi_failed"}]_vars

\* the bus raised on the payload of the column-address command while a
\* screen fill was pushed: the framebuffer is filled, the panel got nothing
C12_Witness ==
    /\ Len(hist) = 1 /\ hist[1].op = "fill_screen" /\ hist[1].args = <<396>>
    /\ cfg.fail = 2
    /\ framebuffer = ImageNew(width, height, <<0, 49, 99>>)
    /\ FailedAt(io) # {}
    /\ DOMAIN gram = {}
    /\ ~hist[1].raised

-----------------------------------------------------------------------------
(* Claims on degenerate shapes *)

\* C13: circle with radius 0 and a centre on the panel writes exactly one
\* pixel, at (x_center, y_center): the fill colour when a fill is given,
\* with or without an outline, the outline colour when only an outline is
\* given; and the region pushed is the single pixel {x_center,y_center,1,1}
C13_CircleRadiusZero ==
    [][(/\ Calls("circle")
        /\ LET a == hist'[Len(hist')].args
           IN /\ a[3] = 0
              /\ <<a[1], a[2]>> \in Coords(width, height)
              /\ (a[4] # None565 \/ a[5] # None565))
       => LET a == hist'[Len(hist')].args
              ink == IF a[5] # None565 THEN a[5] ELSE a[4]
          IN /\ \A p \in Coords(width, height) :
                    framebuffer'.px[p] =
                        IF p = <<a[1], a[2]>>
                        THEN <<((ink \div 2048) * 255 + 15) \div 31,
                               (((ink \div 32) % 64) * 255 + 31) \div 63,
                               ((ink % 32) * 255 + 15) \div 31>>
                        ELSE framebuffer.px[p]
             /\ hist'[Len(hist')].syncs = <<<<a[1], a[2], 1, 1>>>>
             /\ ~hist'[Len(hist')].raised]_vars

\* a circle of radius 0 with a white outline and a red fill has been drawn
\* in the far corner of a filled screen: that pixel alone is red
C13_Witness ==
    /\ Len(hist) = 2
    /\ hist[1].op = "fill_screen" /\ hist[1].args = <<396>>
    /\ hist[2].op = "circle"
    /\ hist[2].args = <<width - 1, height - 1, 0, White565, 51200, 1>>
    /\ framebuffer.px[<<width - 1, height - 1>>] = <<206, 0, 0>>
    /\ framebuffer.px[<<0, 0>>] = <<0, 49, 99>>
    /\ hist[2].syncs = <<<<width - 1, height - 1, 1, 1>>>>

\* a call whose geometry is degenerate: a pixel off the panel, a rectangle
\* of width or height at most 0, a circle of negative radius, an image
\* composited wholly off the panel
Degenerate(call) ==
    LET a == call.args
    IN \/ call.op = "pixel" /\ <<a[1], a[2]>> \notin Coords(width, height)
       \/ call.op = "rectangle" /\ (a[3] <= 0 \/ a[4] <= 0)
       \/ call.op = "circle" /\ a[3] < 0
       \/ call.op = "draw_image_rgba_composited" /\ OnPanel(a[1], a[2], a[3]) = {}

\* C14: pixel outside the panel, rectangle with width<=0 or height<=0,
\* circle with radius<0 and draw_image_rgba_composited with an image fully
\* off the panel return without raising, leave every framebuffer pixel
\* unchanged and issue no bus write
C14_DegenerateIsNoOp ==
    [][(Len(hist') = Len(hist) + 1 /\ Degenerate(hist'[Len(hist')]))
       => /\ ~hist'[Len(hist')].raised
          /\ framebuffer' = framebuffer
          /\ NoBusAttempt(io')]_vars

\* after a screen fill, a pixel one column right of the panel was asked
\* for: the framebuffer is still of the fill colour and the bus was idle
C14_Witness ==
    /\ Len(hist) = 2
    /\ hist[1].op = "fill_screen" /\ hist[1].args = <<396>>
    /\ hist[2].op = "pixel" /\ hist[2].args = <<width, 0, White565>>
    /\ framebuffer = ImageNew(width, height, <<0, 49, 99>>)
    /\ io = <<>>

-----------------------------------------------------------------------------
(* Claims on the region handed to the hardware sync *)

\* the extent <<xmin, ymin, xmax, ymax>> of the shape a call draws, and the
\* stroke width it was given
Extent(call) ==
    LET a == call.args
        lo(u, v) == IF u < v THEN u ELSE v
        hi(u, v) == IF u < v THEN v ELSE u
    IN IF call.op = "line" THEN <<lo(a[1], a[3]), lo(a[2], a[4]), hi(a[1], a[3]), hi(a[2], a[4])>>
       ELSE IF call.op = "rectangle" THEN <<a[1], a[2], a[1] + a[3] - 1, a[2] + a[4] - 1>>
       ELSE IF call.op = "circle" THEN <<a[1] - a[3], a[2] - a[3], a[1] + a[3], a[2] + a[3]>>
       ELSE <<lo(a[1], a[3]), lo(a[2], a[4]), hi(a[1], a[3]), hi(a[2], a[4])>>

StrokeWidth(call) ==
    IF call.op \in {"line", "circle"} THEN call.args[6] ELSE call.args[7]

\* C15: for line, rectangle, circle and oval the region handed to the
\* hardware sync is the shape's extent [xmin..xmax] x [ymin..ymax] grown by
\* p = floor(strokeWidth/2)+1 on each side: x = xmin-p, y = ymin-p,
\* width = (xmax-xmin+1)+2p, height = (ymax-ymin+1)+2p
C15_PaddedRegion ==
    (hist # <<>> /\ LastCall.op \in {"line", "rectangle", "circle", "oval"}) =>
        LET ext == Extent(LastCall)
            p == (StrokeWidth(LastCall) \div 2) + 1
        IN LastCall.syncs = <<<<ext[1] - p, ext[2] - p,
                                (ext[3] - ext[1] + 1) + 2 * p,
                                (ext[4] - ext[2] + 1) + 2 * p>>>>

\* the part of the panel a rectangle x, y, w, h covers, as <<x, y, w, h>>,
\* or the empty tuple when it covers none of it
Intersection(x, y, rw, rh) ==
    LET x0 == IF x < 0 THEN 0 ELSE x
        y0 == IF y < 0 THEN 0 ELSE y
        x1 == IF x + rw > width THEN width ELSE x + rw
        y1 == IF y + rh > height THEN height ELSE y + rh
    IN IF x1 > x0 /\ y1 > y0 THEN <<x0, y0, x1 - x0, y1 - y0>> ELSE <<>>

\* C16: _update_framebuffer_region pushes, for any region asked for, exactly
\* the intersection of that rectangle with the panel, and writes nothing to
\* the bus when the intersection is empty
C16_SyncIsIntersection ==
    Called("update_framebuffer_region") =>
        LET a == LastCall.args
            part == Intersection(a[1], a[2], a[3], a[4])
        IN IF part = <<>> THEN NoBusAttempt(io) /\ LastCall.syncs = <<>>
           ELSE LastCall.syncs = <<part>>

-----------------------------------------------------------------------------
(* Claims on the bus traffic *)

\* the RGB565 pixel bytes of the framebuffer's window xs..xe, ys..ye, high
\* byte first, row by row
WindowBytesOf(fb, xs, xe, ys, ye) ==
    LET ww == xe - xs + 1
    IN [k \in 1 .. 2 * ww * (ye - ys + 1) |->
          LET i == (k - 1) \div 2
              px == fb.px[<<xs + (i % ww), ys + (i \div ww)>>]
              v == (px[1] \div 8) * 2048 + (px[2] \div 4) * 32 + (px[3] \div 8)
          IN IF k % 2 = 1 THEN v \div 256 ELSE v % 256]

\* the data of a run of bus writes, end to end
RECURSIVE Joined(_, _)
Joined(wr, k) == IF k > Len(wr) THEN <<>> ELSE wr[k].data \o Joined(wr, k + 1)

\* C17: every hardware sync of a non-empty region puts on the bus, in this
\* order and nothing else: command 0x2A with 4 payload bytes, command 0x2B
\* with 4 payload bytes, command 0x2C, then the pixel data; the window
\* programmed is the synced region; command bytes go with the data/command
\* line low, payload and pixel bytes with it high
C17_SyncBusOrder ==
    (hist # <<>> /\ BusWrites(io, 0) # <<>>) =>
        LET wr == BusWrites(io, 0)
        IN /\ Len(wr) >= 6
           /\ wr[1] = [dc |-> 0, data |-> <<CMD_CASET>>]
           /\ wr[2].dc = 1 /\ Len(wr[2].data) = 4
           /\ wr[3] = [dc |-> 0, data |-> <<CMD_RASET>>]
           /\ wr[4].dc = 1 /\ Len(wr[4].data) = 4
           /\ wr[5] = [dc |-> 0, data |-> <<CMD_RAMWR>>]
           /\ \A k \in 6 .. Len(wr) : wr[k].dc = 1
           /\ LET xs == wr[2].data[1] * 256 + wr[2].data[2]
                  xe == wr[2].data[3] * 256 + wr[2].data[4]
                  ys == wr[4].data[1] * 256 + wr[4].data[2]
                  ye == wr[4].data[3] * 256 + wr[4].data[4]
              IN /\ 0 <= xs /\ xs <= xe /\ xe < width
                 /\ 0 <= ys /\ ys <= ye /\ ye < height
                 /\ window = <<xs, xe, ys, ye>>
                 /\ Joined(wr, 6) = WindowBytesOf(framebuffer, xs, xe, ys, ye)

\* a rectangle hanging off the right edge has been pushed over a filled
\* screen: six writes, the window the two columns it was clamped to
C17_Witness ==
    /\ Len(hist) = 2
    /\ hist[1].op = "fill_screen"
    /\ hist[2].op = "fill_rect" /\ hist[2].args[1] = 1
    /\ Len(BusWrites(io, 0)) = 6
    /\ BusWrites(io, 0)[2].data = <<0, 1, 0, width - 1>>
    /\ window = <<1, width - 1, 0, height - 1>>

\* C18: _write_data, given a byte buffer of length n, makes ceil(n/4096)
\* bus writes, each of at most 4096 bytes and all but the last of exactly
\* 4096, and the chunks end to end are the buffer, byte for byte
C18_ChunkedStream ==
    (Called("write_data") /\ LastCall.args[1] = "bytes") =>
        LET n == LastCall.args[2]
            buf == Buffer(n, LastCall.args[3])
            wr == SelectSeq(io, LAMBDA e : e.t \in {"spi", "spi_failed"})
        IN /\ Len(wr) = (n + 4095) \div 4096
           /\ \A k \in 1 .. Len(wr) :
                /\ wr[k].t = "spi"
                /\ Len(wr[k].data) <= 4096
                /\ k < Len(wr) => Len(wr[k].data) = 4096
                /\ \A i \in 1 .. Len(wr[k].data) :
                        /\ (k - 1) * 4096 + i <= n
                        /\ wr[k].data[i] = buf[(k - 1) * 4096 + i]
           /\ n > 0 => 4096 * (Len(wr) - 1) + Len(wr[Len(wr)].data) = n

\* a buffer one byte over two chunks has gone out as three writes, the
\* last of one byte
C18_Witness ==
    /\ Called("write_data") /\ LastCall.args = <<"bytes", 8193, 1>>
    /\ LET wr == SelectSeq(io, LAMBDA e : e.t = "spi")
       IN /\ Len(wr) = 3
          /\ Len(wr[1].data) = 4096 /\ Len(wr[2].data) = 4096
          /\ wr[3].data = <<(7 * 8193 + 13 + 2) % 256>>

\* C20: draw_image_rgb565(x,y,w,h,buf) with len(buf)=2*w*h writes nothing
\* to the bus when the image misses the panel; otherwise it programs the
\* window to the intersection of the image with the panel, sends
\* 2*(window width)*(window height) pixel bytes, and the pixel at window
\* position (i,j) is the source pixel at column i+max(0,-x), row j+max(0,-y)
C20_RawBlitClipped ==
    (Called("draw_image_rgb565") /\ Len(LastCall.args[5]) = 2 * LastCall.args[3] * LastCall.args[4]) =>
        LET a == LastCall.args
            part == Intersection(a[1], a[2], a[3], a[4])
            wr == BusWrites(io, 0)
        IN IF part = <<>> THEN NoBusAttempt(io)
           ELSE LET sent == Joined(wr, 6)
                    dx == IF a[1] < 0 THEN -a[1] ELSE 0
                    dy == IF a[2] < 0 THEN -a[2] ELSE 0
                IN /\ Len(wr) >= 6
                   /\ window = <<part[1], part[1] + part[3] - 1, part[2], part[2] + part[4] - 1>>
                   /\ LastCall.syncs = <<part>>
                   /\ Len(sent) = 2 * part[3] * part[4]
                   /\ \A i \in 0 .. part[3] - 1, j \in 0 .. part[4] - 1, b \in 1 .. 2 :
                        sent[2 * (j * part[3] + i) + b]
                            = a[5][2 * ((j + dy) * a[3] + (i + dx)) + b]

\* an image split by column, placed one up and one left of the panel: the
\* one pixel sent is its bottom right one, from the second column
C20_Witness ==
    /\ Called("draw_image_rgb565")
    /\ LastCall.args[1] = -1 /\ LastCall.args[2] = -1
    /\ LastCall.args[5][1] # LastCall.args[5][3]
    /\ window = <<0, 0, 0, 0>>
    /\ Joined(BusWrites(io, 0), 6) = SubSeq(LastCall.args[5], 7, 8)

-----------------------------------------------------------------------------
(* Chip-select framing of a call's events *)

\* the level the chip-select pin was last set to before the i-th event of a
\* log, -1 when the log has not set it by then
RECURSIVE CsBefore(_, _)
CsBefore(events, i) ==
    IF i <= 1 THEN -1
    ELSE IF events[i - 1].t = "cs" THEN events[i - 1].v
    ELSE CsBefore(events, i - 1)

\* C21: with a chip-select pin, chip-select is low at every bus write, and a
\* call that drove chip-select has left it high when it is over, whether or
\* not a write raised; without one, no event of the driver is on chip-select.
C21_ChipSelectFraming ==
    IF cfg.cs
    THEN /\ \A i \in 1 .. Len(io) :
                io[i].t \in {"spi", "spi_failed"} => CsBefore(io, i) = 0
         /\ CsBefore(io, Len(io) + 1) \in {-1, 1}
    ELSE \A i \in 1 .. Len(io) : io[i].t # "cs"

-----------------------------------------------------------------------------
(* Claims on a circle without colours *)

\* C22: circle with radius 0 and neither an outline colour nor a fill colour
\* returns without raising, leaves the framebuffer unchanged and issues no
\* bus write
C22_ColourlessPointIsNoOp ==
    [][(/\ Calls("circle")
        /\ LET a == hist'[Len(hist')].args
           IN a[3] = 0 /\ a[4] = None565 /\ a[5] = None565)
       => /\ ~hist'[Len(hist')].raised
          /\ framebuffer' = framebuffer
          /\ NoBusAttempt(io')]_vars

====
